---- MODULE Spec2Model ----
(***************************************************************************)
(* Verification model of the crawl-and-enrichment pipeline:                *)
(*   - DeepCrawler.run          (src/deep_crawl.py)   -> SpecCrawl         *)
(*   - CSVWriter.write_master   (src/output/csv_writer.py) -> SpecMaster   *)
(*   - the e-mail enrichment stages and CrawlEngine._enrich_and_output     *)
(*     (src/enrichment/*.py, src/engine.py) -> SpecStages, Spec            *)
(***************************************************************************)
EXTENDS Integers, Sequences, FiniteSets, TLC

(***************************************************************************)
(* Bounds of the model.                                                    *)
(***************************************************************************)
NumTargets == 3        \* number of fund URLs in the target file
MaxConcurrent == 2     \* largest batch size (max_concurrent) explored
MaxFound == 1          \* most contacts one fund crawl returns

(***************************************************************************)
(* Generic helpers.                                                        *)
(***************************************************************************)
Range(s) == {s[i] : i \in 1..Len(s)}

Min(a, b) == IF a <= b THEN a ELSE b

RECURSIVE Concat(_, _)
\* concatenation of f[k] for the elements k of the sequence keys, in order
Concat(keys, f) ==
    IF keys = <<>> THEN <<>>
    ELSE f[Head(keys)] \o Concat(Tail(keys), f)

(***************************************************************************)
(* State.                                                                  *)
(***************************************************************************)
VARIABLES
    \* -- DeepCrawler (src/deep_crawl.py)
    targets,        \* list of fund URLs returned by _load_targets
    max_concurrent, \* DeepCrawler.max_concurrent (the batch size)
    batch_start,    \* loop variable of run(), 0-based
    cpc,            \* position of run()
    task,           \* state of each _crawl_fund task of the running batch
    result,         \* value each finished _crawl_fund task returned
    all_contacts,   \* DeepCrawler.all_contacts
    checkpoint,     \* the checkpoint CSV on disk: exists, rows
    clog,           \* warnings/errors logged by the crawler
    summary,        \* the DEEP CRAWL SUMMARY block, label -> value
    crawled,        \* history: URLs whose _crawl_fund task was started
    returned,       \* history: contacts returned by completed crawls
    batch_timeouts, \* history: batch numbers that hit the aggregate timeout
    failed,         \* history: URLs whose crawl raised, timed out or hung
    crash_at,       \* history: position of run() when the process died
    seen_domains,           \* the URLs listed in data/seen_domains.txt
    \* -- CSVWriter (src/output/csv_writer.py)
    master,         \* rows of investor_leads_master.csv on disk
    wpc,            \* position of the caller of write_master
    \* -- enrichment (src/engine.py, src/enrichment/*.py)
    all_leads,      \* CrawlEngine.all_leads / the list handed to the stages
    patterns,       \* EmailGuesser._pattern_cache._patterns: domain -> pattern
    smtp_cache,     \* the engine's EmailValidator: _smtp_available, _smtp_cache
    args,           \* who drives the stages, and the flags --skip-greyhat,
                    \* --skip-smtp
    epc,            \* position of the enrichment pipeline
    ran,            \* history: pipeline steps completed in the current run
    runs,           \* history: number of pipeline runs started
    first_run,      \* history: the leads as the first complete run left them
    \* -- BaseSiteAdapter (src/adapters/base.py)
    pagination,     \* site_config["pagination"]: type, budget, stale_rounds
    apc,            \* position of _paginate_and_extract
    step_no,        \* loop variable i of the pagination handler
    cards,          \* names on the cards of the current page state
    adapter_leads,  \* names of BaseSiteAdapter.leads
    extracts,       \* history: calls of _extract_from_page that returned
    shown,          \* history: names visible when a completed step began
    idle_rounds,    \* history: consecutive last rounds without new content
    page_closed,    \* the page or its browser is gone: every call raises
    \* -- EmailValidator (src/enrichment/email_validator.py)
    smtp_available, \* EmailValidator._smtp_available
    verdict_cache,  \* EmailValidator._smtp_cache: address -> result
    mx_host_cache,  \* EmailValidator._mx_host_cache: domain -> host or ""
    catch_all_cache,\* EmailValidator._catch_all_cache: domain -> bool
    vpc,            \* position of verify_smtp_batch
    check_pc,       \* position of each _check_one / verify_smtp call
    mx_key,         \* local mx_key of each _check_one
    connect_host,   \* local connect_host of each verify_smtp
    lock_holder,    \* the _check_one that holds the rate-limit lock, or 0
    wake_at,        \* when the sleep of the lock holder is over
    mx_last_check,  \* local dict mx_last_check of verify_smtp_batch
    clock,          \* time.monotonic(), in tenths of a second
    returned_verdict, \* the result returned last for each address
    lead_status,    \* email_status the engine gives each candidate lead
    conn_count,     \* history: SMTP connections opened so far
    last_conv,      \* history: host -> start of its latest conversation
    gap_broken,     \* history: two conversations started too close
    lookups,        \* history: domain -> MX-host resolutions started
    ca_probes,      \* history: domain -> catch-all probes started
    probe_accepted, \* history: domains that accepted a random local part
    last_net,       \* history: the network call that completed last, when
                    \* it timed out or could not connect
    catch_all_domains, \* the domains whose server accepts every recipient
    \* -- CatchAllDetector (src/enrichment/catchall_detector.py)
    det_pc,         \* position of each _check_catch_all of enrich_batch
    det_mx_cache,   \* CatchAllDetector._mx_cache: domain -> MX list
    det_catchall_cache, \* CatchAllDetector._catchall_cache: domain -> bool
    det_net,        \* history: the network call that completed last, when
                    \* it timed out or could not connect
    \* -- freshness of the targets (src/deep_crawl.py)
    fresh_day,      \* today's date, in days
    seen_txt,       \* data/seen_domains.txt: its lines and its mtime
    crawl_day,      \* history: domain -> day of its latest crawl, 0 if none
    loaded,         \* history: the latest _load_targets: its day, the
                    \* target file, what it returned, crawl_day before it
    \* -- the lead pool (src/sources/aggregator.py, src/engine.py)
    pool,           \* SourceAggregator.all_leads, then CrawlEngine.all_leads
    offered,        \* history: the contacts handed to the pool so far
    merge_pc,       \* the next source to be added to the pool
    \* -- LeadScorer (src/enrichment/scoring.py)
    scorer,         \* LeadScorer's weights, modifiers, tiers and profile
    score_log,      \* history: the latest call of LeadScorer.score, with
                    \* its lead, the total and the tier returned
    \* -- matching of found addresses to the contacts of one fund
    \*    (src/deep_crawl.py, src/enrichment/dns_harvester.py)
    fund_found,     \* found of _crawl_fund, then the contacts it returned
    match_pool,     \* history: the addresses the latest pass had to match
    pages_seen,     \* number of _extract_from_page calls of the fund
    mpc,            \* position: "pages", "returned", "harvested"
    \* -- EmailGuesser.guess_batch, phase by phase
    \*    (src/enrichment/email_guesser.py)
    gphase,         \* phase of guess_batch: "learn", "probe", "apply",
                    \* "process", "done"
    gpos,           \* phase 1: position of the lead the loop is at
    still_no_email  \* phase 3: positions of the leads whose _process has
                    \* not finished

(***************************************************************************)
(* ---------------------------  DEEP CRAWLER  ---------------------------- *)
(***************************************************************************)
masterVars == <<master, wpc>>

enrichVars == <<all_leads, patterns, smtp_cache, args, epc, ran, runs,
                first_run>>

crawlVars == <<targets, max_concurrent, batch_start, cpc, task, result,
               all_contacts, checkpoint, clog, summary, crawled, returned,
               batch_timeouts, failed, crash_at, seen_domains>>

adapterVars == <<pagination, apc, step_no, cards, adapter_leads, extracts,
                 shown, idle_rounds, page_closed>>

\* the variables of the subsystems other than the deep crawler, the master
\* file and the enrichment pipeline
validatorVars == <<smtp_available, verdict_cache, mx_host_cache,
                   catch_all_cache, vpc, check_pc, mx_key, connect_host,
                   lock_holder, wake_at, mx_last_check, clock, returned_verdict,
                   lead_status, conn_count, last_conv, gap_broken, lookups,
                   ca_probes, probe_accepted, last_net, catch_all_domains>>

detectorVars == <<det_pc, det_mx_cache, det_catchall_cache, det_net>>

freshVars == <<fresh_day, seen_txt, crawl_day, loaded>>

\* the variables of the subsystems modelled last
mergeVars == <<pool, offered, merge_pc>>

scoreVars == <<scorer, score_log>>

\* the subsystems modelled after the lead pool
matchVars == <<fund_found, match_pool, pages_seen, mpc>>

guessVars == <<gphase, gpos, still_no_email>>

tailVars == <<scoreVars, matchVars, guessVars>>

lateVars == <<freshVars, mergeVars, tailVars>>

otherVars == <<adapterVars, validatorVars, detectorVars, lateVars>>

vars == <<crawlVars, masterVars, enrichVars, otherVars>>

\* a CSV file that has not been written yet
NoFile == [exists |-> FALSE, rows |-> <<>>]

\* an empty dict
EmptyDict == [k \in {} |-> ""]

\* no CSVWriter call is in progress and no master file exists
MasterIdle == master = NoFile /\ wpc = "idle"

\* no enrichment pipeline has been constructed
EnrichIdle ==
    /\ all_leads = <<>>
    /\ patterns = EmptyDict
    /\ smtp_cache = [available |-> "unknown", results |-> EmptyDict]
    /\ args = [caller |-> "none", skip_greyhat |-> FALSE, skip_smtp |-> FALSE]
    /\ epc = "idle"
    /\ ran = {}
    /\ runs = 0
    /\ first_run = <<>>

\* no adapter has been constructed
AdapterIdle ==
    /\ pagination = [type |-> "none", budget |-> 0, stale_rounds |-> 0]
    /\ apc = "idle"
    /\ step_no = 0
    /\ cards = {}
    /\ adapter_leads = {}
    /\ extracts = 0
    /\ shown = {}
    /\ idle_rounds = 0
    /\ page_closed = FALSE

\* the network call that completed last did not time out, or none has
\* completed yet
NoCall == [op |-> "none", who |-> 0, key |-> "", outcome |-> ""]

\* no EmailValidator is verifying a batch
ValidatorIdle ==
    /\ smtp_available = "untested"
    /\ verdict_cache = <<>>
    /\ mx_host_cache = EmptyDict
    /\ catch_all_cache = EmptyDict
    /\ vpc = "idle"
    /\ check_pc = <<>>
    /\ mx_key = <<>>
    /\ connect_host = <<>>
    /\ lock_holder = 0
    /\ wake_at = 0
    /\ mx_last_check = EmptyDict
    /\ clock = 0
    /\ returned_verdict = <<>>
    /\ lead_status = <<>>
    /\ conn_count = 0
    /\ last_conv = EmptyDict
    /\ gap_broken = FALSE
    /\ lookups = EmptyDict
    /\ ca_probes = EmptyDict
    /\ probe_accepted = {}
    /\ last_net = NoCall
    /\ catch_all_domains = {}

\* no CatchAllDetector has been constructed
DetectorIdle ==
    /\ det_pc = EmptyDict
    /\ det_mx_cache = EmptyDict
    /\ det_catchall_cache = EmptyDict
    /\ det_net = NoCall

\* no crawler has read or written seen_domains.txt
FreshIdle ==
    /\ fresh_day = 0
    /\ seen_txt = [lines |-> {}, mtime |-> 0]
    /\ crawl_day = EmptyDict
    /\ loaded = [on |-> 0, file |-> <<>>, targets |-> <<>>,
                 before |-> EmptyDict]

\* none of the subsystems modelled last has been constructed
\* no lead pool has been built
MergeIdle == pool = <<>> /\ offered = {} /\ merge_pc = "idle"

\* the configuration _load_config returns when there is no scoring.yaml
DefaultScorer ==
    [weights |-> [stage_match |-> 30, sector_match |-> 25,
                  check_size_fit |-> 20],
     modifiers |-> [has_email |-> 10, has_linkedin |-> 5, no_email |-> -15,
                    stale_fund |-> 0],
     tiers |-> [hot |-> 80, warm |-> 60, cool |-> 40]]

ScoreIdle == scorer = DefaultScorer /\ score_log = <<>>

MatchIdle ==
    /\ fund_found = <<>>
    /\ match_pool = <<>>
    /\ pages_seen = 0
    /\ mpc = "idle"

GuessIdle == gphase = "idle" /\ gpos = 0 /\ still_no_email = {}

TailIdle == ScoreIdle /\ MatchIdle /\ GuessIdle

LateIdle == FreshIdle /\ MergeIdle /\ TailIdle

\* none of the other subsystems has been constructed
OtherIdle == AdapterIdle /\ ValidatorIdle /\ DetectorIdle /\ LateIdle

\* the crawler has not been constructed
CrawlIdle ==
    /\ targets = <<>>
    /\ max_concurrent = 1
    /\ batch_start = 0
    /\ cpc = "idle"
    /\ task = EmptyDict
    /\ result = EmptyDict
    /\ all_contacts = <<>>
    /\ checkpoint = NoFile
    /\ clog = {}
    /\ summary = EmptyDict
    /\ crawled = {}
    /\ returned = {}
    /\ batch_timeouts = {}
    /\ failed = {}
    /\ crash_at = "none"
    /\ seen_domains = {}

FundUrls == {"f" \o ToString(i) : i \in 1..NumTargets}

\* an InvestorLead built by _extract_from_page for fund url u
Contact(u, i) == [name |-> i, website |-> u, source |-> "team"]

\* the lists a crawl of u can return: 0..MaxFound contacts
CrawlResults(u) ==
    {[k \in 1..n |-> Contact(u, k)] : n \in 0..MaxFound}

\* row written by _save_checkpoint for contact c
CheckpointRow(c) ==
    [name |-> c.name, fund_url |-> c.website, source_page |-> c.source]

\* InvestorLead rebuilt by _load_checkpoint from a row (source is dropped)
LeadFromRow(r) == [name |-> r.name, website |-> r.fund_url, source |-> ""]

\* batch = targets[batch_start:batch_start + batch_size]
Batch ==
    SubSeq(targets, batch_start + 1,
           Min(batch_start + max_concurrent, Len(targets)))

\* 0-based number of the batch a target url belongs to
BatchOf(u) ==
    LET i == CHOOSE k \in 1..Len(targets) : targets[k] = u
    IN (i - 1) \div max_concurrent

CurBatch == batch_start \div max_concurrent

Finished(u) == task[u] \in {"done", "error", "timeout", "raised"}

CrawlInit ==
    /\ MasterIdle
    /\ EnrichIdle
    /\ OtherIdle
    /\ targets \in {s \in [1..NumTargets -> FundUrls] :
                        \A i, j \in 1..NumTargets : i # j => s[i] # s[j]}
    /\ max_concurrent \in 1..MaxConcurrent
    /\ batch_start = 0
    /\ cpc = "loop"
    /\ task = [u \in FundUrls |-> "idle"]
    /\ result = [u \in FundUrls |-> <<>>]
    /\ all_contacts = <<>>
    /\ checkpoint = NoFile
    /\ clog = {}
    /\ summary = [x \in {} |-> 0]
    /\ crawled = {}
    /\ returned = {}
    /\ batch_timeouts = {}
    /\ failed = {}
    /\ crash_at = "none"
    /\ seen_domains = {}

\* for batch_start in range(0, total, batch_size): tasks = [...]
StartBatch ==
    /\ UNCHANGED <<masterVars, enrichVars, otherVars, seen_domains>>
    /\ cpc = "loop"
    /\ batch_start < Len(targets)
    /\ task' = [u \in FundUrls |->
                   IF u \in Range(Batch) THEN "pending" ELSE "idle"]
    /\ result' = [u \in FundUrls |-> <<>>]
    /\ crawled' = crawled \cup Range(Batch)
    /\ cpc' = "gather"
    /\ UNCHANGED <<targets, max_concurrent, batch_start, all_contacts,
                   checkpoint, clog, summary, returned, batch_timeouts,
                   failed, crash_at>>

\* _crawl_fund: _do_crawl returned its deduplicated list within 45 s
CrawlFundReturns(u) ==
    /\ UNCHANGED <<masterVars, enrichVars, otherVars, seen_domains>>
    /\ cpc = "gather"
    /\ task[u] = "pending"
    /\ \E r \in CrawlResults(u) :
          /\ result' = [result EXCEPT ![u] = r]
          /\ returned' = returned \cup Range(r)
    /\ task' = [task EXCEPT ![u] = "done"]
    /\ UNCHANGED <<targets, max_concurrent, batch_start, cpc, all_contacts,
                   checkpoint, clog, summary, crawled, batch_timeouts,
                   failed, crash_at>>

\* _crawl_fund: asyncio.TimeoutError of the 45 s wait_for; contacts stays []
CrawlFundHardTimeout(u) ==
    /\ UNCHANGED <<masterVars, enrichVars, otherVars, seen_domains>>
    /\ cpc = "gather"
    /\ task[u] = "pending"
    /\ task' = [task EXCEPT ![u] = "timeout"]
    /\ result' = [result EXCEPT ![u] = <<>>]
    /\ clog' = clog \cup {<<"hard_timeout_skipping", u>>}
    /\ UNCHANGED <<targets, max_concurrent, batch_start, cpc, all_contacts,
                   checkpoint, summary, crawled, returned, batch_timeouts,
                   crash_at>>
    /\ failed' = failed \cup {u}

\* _crawl_fund: _do_crawl raised; "except Exception" logs, contacts stays []
CrawlFundFails(u) ==
    /\ UNCHANGED <<masterVars, enrichVars, otherVars, seen_domains>>
    /\ cpc = "gather"
    /\ task[u] = "pending"
    /\ task' = [task EXCEPT ![u] = "error"]
    /\ result' = [result EXCEPT ![u] = <<>>]
    /\ clog' = clog \cup {<<"failed_to_crawl", u>>}
    /\ UNCHANGED <<targets, max_concurrent, batch_start, cpc, all_contacts,
                   checkpoint, summary, crawled, returned, batch_timeouts,
                   crash_at>>
    /\ failed' = failed \cup {u}

\* _crawl_fund raised outside its try block (urlparse of a malformed url):
\* gather(return_exceptions=True) hands the exception back as the result
CrawlFundRaises(u) ==
    /\ UNCHANGED <<masterVars, enrichVars, otherVars, seen_domains>>
    /\ cpc = "gather"
    /\ task[u] = "pending"
    /\ task' = [task EXCEPT ![u] = "raised"]
    /\ UNCHANGED <<targets, max_concurrent, batch_start, cpc, result,
                   all_contacts, checkpoint, clog, summary, crawled, returned,
                   batch_timeouts,
                   crash_at>>
    /\ failed' = failed \cup {u}

\* results whose value is a list: "if isinstance(result, list)"
ListResult(u) == IF task[u] = "raised" THEN <<>> ELSE result[u]

\* the gather returned within the batch budget: extend all_contacts
GatherReturns ==
    /\ UNCHANGED <<masterVars, enrichVars, otherVars, seen_domains>>
    /\ cpc = "gather"
    /\ \A u \in Range(Batch) : Finished(u)
    /\ all_contacts' =
          all_contacts \o Concat(Batch, [u \in FundUrls |-> ListResult(u)])
    /\ cpc' = "save"
    /\ UNCHANGED <<targets, max_concurrent, batch_start, task, result,
                   checkpoint, clog, summary, crawled, returned,
                   batch_timeouts,
                   failed, crash_at>>

\* the outer wait_for(batch_size * 50 s) expired while a task was still
\* running: "results" is never bound, nothing is added to all_contacts
BatchTimeout ==
    /\ UNCHANGED <<masterVars, enrichVars, otherVars, seen_domains>>
    /\ cpc = "gather"
    /\ \E u \in Range(Batch) : ~Finished(u)
    /\ clog' = clog \cup {<<"batch_timeout", CurBatch>>}
    /\ batch_timeouts' = batch_timeouts \cup {CurBatch}
    /\ cpc' = "save"
    /\ UNCHANGED <<targets, max_concurrent, batch_start, task, result,
                   all_contacts, checkpoint, summary, crawled, returned,
                   crash_at>>
    /\ failed' = failed \cup {u \in Range(Batch) : ~Finished(u)}

\* _save_checkpoint, first half: open(path, 'w') truncates the file
OpenCheckpoint ==
    /\ UNCHANGED <<masterVars, enrichVars, otherVars, seen_domains>>
    /\ cpc = "save"
    /\ checkpoint' = [exists |-> TRUE, rows |-> <<>>]
    /\ cpc' = "write"
    /\ UNCHANGED <<targets, max_concurrent, batch_start, task, result,
                   all_contacts, clog, summary, crawled, returned,
                   batch_timeouts,
                   failed, crash_at>>

\* _save_checkpoint, second half: the rows are written and the file closed;
\* the for loop of run() then advances
WriteCheckpoint ==
    /\ UNCHANGED <<masterVars, enrichVars, otherVars, seen_domains>>
    /\ cpc = "write"
    /\ checkpoint' = [exists |-> TRUE,
                      rows |-> [i \in 1..Len(all_contacts) |->
                                   CheckpointRow(all_contacts[i])]]
    /\ batch_start' = batch_start + max_concurrent
    /\ cpc' = "loop"
    /\ UNCHANGED <<targets, max_concurrent, task, result, all_contacts, clog,
                   summary, crawled, returned, batch_timeouts,
                   failed, crash_at>>

\* contacts after "if not self.all_contacts: self._load_checkpoint()"
AfterRecovery ==
    IF all_contacts = <<>> /\ checkpoint.exists
    THEN [i \in 1..Len(checkpoint.rows) |-> LeadFromRow(checkpoint.rows[i])]
    ELSE all_contacts

\* the labelled lines of the DEEP CRAWL SUMMARY block
SummaryOf(contacts) ==
    [total_contacts |-> Len(contacts),
     funds_with_contacts |->
        Cardinality({contacts[i].website : i \in 1..Len(contacts)}),
     target_funds |-> Len(targets)]

\* _load_targets: the targets of the file that the next run crawls; recent
\* says that seen_domains.txt was modified within stale_days
LoadTargets(file, seen_file, recent, force_recrawl) ==
    IF force_recrawl THEN file
    ELSE IF seen_file # {} /\ recent
    THEN SelectSeq(file, LAMBDA t : t \notin seen_file)
    ELSE file

\* _save_seen(domains): the file holds the union, without any status
SaveSeen(seen_file, domains) == seen_file \cup Range(domains)

\* end of run(): recovery, _save_seen(targets), summary (skip_enrichment =
\* True as the engine constructs the crawler)
FinishRun ==
    /\ UNCHANGED <<masterVars, enrichVars, otherVars>>
    /\ cpc = "loop"
    /\ batch_start >= Len(targets)
    /\ all_contacts' = AfterRecovery
    /\ seen_domains' = SaveSeen(seen_domains, targets)
    /\ summary' = SummaryOf(AfterRecovery)
    /\ cpc' = "done"
    /\ UNCHANGED <<targets, max_concurrent, batch_start, task, result,
                   checkpoint, clog, crawled, returned, batch_timeouts,
                   failed, crash_at>>

\* the process dies (kill, power loss, OOM): memory is gone, the disk stays
Crash ==
    /\ UNCHANGED <<masterVars, enrichVars, otherVars, seen_domains>>
    /\ cpc \notin {"done", "crashed"}
    /\ cpc' = "crashed"
    /\ UNCHANGED <<targets, max_concurrent, batch_start, task, result,
                   all_contacts, checkpoint, clog, summary, crawled, returned,
                   batch_timeouts,
                   failed>>
    /\ crash_at' = cpc

CrawlNext ==
    \/ StartBatch
    \/ \E u \in FundUrls : CrawlFundReturns(u)
    \/ \E u \in FundUrls : CrawlFundHardTimeout(u)
    \/ \E u \in FundUrls : CrawlFundFails(u)
    \/ \E u \in FundUrls : CrawlFundRaises(u)
    \/ GatherReturns
    \/ BatchTimeout
    \/ OpenCheckpoint
    \/ WriteCheckpoint
    \/ FinishRun
    \/ Crash

SpecCrawl == CrawlInit /\ [][CrawlNext]_vars

(***************************************************************************)
(* Properties of the deep crawler.                                         *)
(***************************************************************************)
\* contact c (as returned by a crawl) is in the run's contact list
InContacts(c) ==
    \E i \in 1..Len(all_contacts) :
        /\ all_contacts[i].name = c.name
        /\ all_contacts[i].website = c.website

\* contact c is in the checkpoint file on disk
InCheckpoint(c) ==
    \E i \in 1..Len(checkpoint.rows) :
        /\ checkpoint.rows[i].name = c.name
        /\ checkpoint.rows[i].fund_url = c.website

\* position of run(), also after a crash
Position == IF cpc = "crashed" THEN crash_at ELSE cpc

\* batch number b is over: its gather returned or timed out
BatchEnded(b) ==
    \/ b < CurBatch
    \/ b = CurBatch /\ Position \in {"save", "write"}

\* C6: when a batch hits the aggregate batch timeout, the contacts of every
\* domain of that batch whose crawl had already completed are kept in the
\* run's contact list.
C6_CompletedKeptOnBatchTimeout ==
    \A c \in returned :
        BatchOf(c.website) \in batch_timeouts => InContacts(c)

\* C7: after each batch finishes the checkpoint on disk holds all contacts
\* gathered in that batch and in all earlier ones, so a crash at any point
\* loses the contacts of at most the one batch in progress.
C7_CrashLosesAtMostOneBatch ==
    /\ (cpc = "loop" /\ batch_start > 0) =>
          \A c \in returned : InCheckpoint(c)
    /\ cpc = "crashed" =>
          \A c \in returned : BatchOf(c.website) < CurBatch => InCheckpoint(c)

\* C8: a fund crawl that does not return within the hard timeout contributes
\* no contacts to the run and appears in the run summary as skipped
\* (timeout).
C8_TimeoutSkippedInSummary ==
    cpc = "done" =>
        \A u \in FundUrls :
            <<"hard_timeout_skipping", u>> \in clog =>
                /\ \A i \in 1..Len(all_contacts) : all_contacts[i].website # u
                /\ "skipped_timeout" \in DOMAIN summary
                /\ u \in summary["skipped_timeout"]

\* C9: if the crawl of one domain raises or times out, the other domains of
\* the same batch are still crawled and their contacts kept, and all later
\* batches still run.
C9_DomainFailureContained ==
    /\ \A u \in failed :
          BatchEnded(BatchOf(u)) =>
              \A c \in returned :
                  BatchOf(c.website) = BatchOf(u) => InContacts(c)
    /\ cpc = "done" => crawled = Range(targets)

\* C11: a domain whose crawl failed or timed out is not recorded as crawled
\* in the crawl state, so that the next run's freshness filter (the state
\* being recent, no forced re-crawl) still selects it for crawling.
C11_FailedDomainRetried ==
    cpc = "done" =>
        \A u \in failed :
            /\ u \notin seen_domains
            /\ u \in Range(LoadTargets(targets, seen_domains, TRUE, FALSE))

(***************************************************************************)
(* ------------------------------  LEADS  -------------------------------- *)
(***************************************************************************)
MaxLeads == 2          \* longest list of leads explored

\* the value None
None == "None"

\* An e-mail string.  email.partition("@") splits it into its local part and
\* its domain; the local part is kept as the list of pieces it is made of
\* (name parts, initials, separators), so that equality and the "in" test of
\* Python are equality and membership of pieces.  A string without "@" has
\* the domain "".
Email(local, dom) == [local |-> local, dom |-> dom]

NA == Email(<<"N/A">>, "")

NAInvalid == Email(<<"N/A (invalid)">>, "")

Blank == Email(<<>>, "")

\* the value None where an e-mail string is expected
NoAddress == Email(<<"None">>, "")

\* "@" in email
HasAt(e) == e.dom # ""

\* an InvestorLead (src/adapters/base.py); id is the identity of the object,
\* email_status is the attribute the enrichment code sets on it
Lead(id, name, fund, website, email, status, stage, score) ==
    [id |-> id, name |-> name, fund |-> fund, website |-> website,
     email |-> email, email_status |-> status, stage |-> stage,
     lead_score |-> score]

\* str.lower() on the names and organizations of the model
Lower(s) ==
    CASE s = "Jane Smith" -> "jane smith"
      [] s = "JANE SMITH" -> "jane smith"
      [] s = "Bob Jones" -> "bob jones"
      [] s = "Bob Smith" -> "bob smith"
      [] s = "Dr. Bob Jones" -> "dr. bob jones"
      [] s = "Acme Capital" -> "acme capital"
      [] s = "ACME Capital" -> "acme capital"
      [] s = "Unknown" -> "unknown"
      [] s = "Beta Fund" -> "beta fund"
      [] OTHER -> s

(***************************************************************************)
(* -----------------------------  CSV WRITER  ---------------------------- *)
(***************************************************************************)
\* the leads handed to write_master by a caller
MasterLeads ==
    {Lead(0, n, f, "N/A", NA, "<unset>", "N/A", sc) :
        n \in {"Jane Smith", "JANE SMITH", "Bob Jones"},
        f \in {"Acme Capital", "ACME Capital"},
        sc \in {25, 60}}

\* lists of at most n elements of S
ListsUpTo(S, n) == UNION {[1..k -> S] : k \in 0..n}

\* the same leads, each with its position as identity
Numbered(ls) == [i \in 1..Len(ls) |-> [ls[i] EXCEPT !.id = i]]

DedupKeyCaseSensitive(lead) == <<lead.name, lead.fund>>

\* key = (lead.name.lower(), lead.fund.lower())
DedupKey(lead) == <<Lower(lead.name), Lower(lead.fund)>>

RECURSIVE Dedup(_, _, _)
\* the dedup loop of write_master over leads[i..], seen = keys met so far
Dedup(leads, i, seen) ==
    IF i > Len(leads) THEN <<>>
    ELSE IF DedupKey(leads[i]) \in seen
         THEN Dedup(leads, i + 1, seen)
         ELSE <<leads[i]>> \o Dedup(leads, i + 1, seen \cup {DedupKey(leads[i])})

RECURSIVE InsertByScore(_, _)
\* x placed in the score-descending list s after every element whose score
\* is not smaller: list.sort(key=score, reverse=True) is stable
InsertByScore(s, x) ==
    IF s = <<>> THEN <<x>>
    ELSE IF Head(s).lead_score >= x.lead_score
         THEN <<Head(s)>> \o InsertByScore(Tail(s), x)
         ELSE <<x>> \o s

RECURSIVE SortByScore(_, _)
\* sorted(leads[1..n], key=lambda l: l.lead_score, reverse=True)
SortByScore(leads, n) ==
    IF n = 0 THEN <<>>
    ELSE InsertByScore(SortByScore(leads, n - 1), leads[n])

\* the row CSVWriter.write formats for a lead
Row(lead) ==
    [Name |-> lead.name, Email |-> lead.email, Fund |-> lead.fund,
     Website |-> lead.website, LeadScore |-> lead.lead_score]

\* the file write_master leaves behind for the list leads
MasterFile(leads) ==
    LET deduped == Dedup(leads, 1, {})
        sorted == SortByScore(deduped, Len(deduped))
    IN [exists |-> TRUE, rows |-> [i \in 1..Len(sorted) |-> Row(sorted[i])]]

MasterInit ==
    /\ CrawlIdle
    /\ EnrichIdle
    /\ OtherIdle
    /\ master = NoFile
    /\ wpc \in {<<"call", ls>> : ls \in ListsUpTo(MasterLeads, MaxLeads)}

\* CSVWriter.write_master(leads)
WriteMaster ==
    /\ wpc[1] = "call"
    /\ master' = MasterFile(wpc[2])
    /\ wpc' = <<"done", wpc[2]>>
    /\ UNCHANGED <<crawlVars, enrichVars, otherVars>>

MasterNext == WriteMaster

SpecMaster == MasterInit /\ [][MasterNext]_vars

\* the key detect_deltas reads back from a row of the master file
RowKey(row) == <<Lower(row.Name), Lower(row.Fund)>>

\* C4: for any list of contacts given to write_master, no two rows of the
\* persisted master dataset have the same (lower-cased name, lower-cased
\* organization) key.
C4_MasterKeysUnique ==
    \A i, j \in 1..Len(master.rows) :
        i # j => RowKey(master.rows[i]) # RowKey(master.rows[j])

\* write_master was handed two leads whose names differ only in letter case
\* and has written the file with one row for the two
C4_Witness ==
    /\ wpc[1] = "done"
    /\ \E i, j \in 1..Len(wpc[2]) :
          /\ i # j
          /\ wpc[2][i].name # wpc[2][j].name
          /\ DedupKey(wpc[2][i]) = DedupKey(wpc[2][j])
    /\ Len(master.rows) >= 1
    /\ Len(master.rows) < Len(wpc[2])

(***************************************************************************)
(* ---------------------  NAMES AND E-MAIL PATTERNS  --------------------- *)
(***************************************************************************)
\* name.strip().split()
Split(name) ==
    CASE name = "Jane Smith" -> <<"Jane", "Smith">>
      [] name = "Bob Jones" -> <<"Bob", "Jones">>
      [] name = "Bob Smith" -> <<"Bob", "Smith">>
      [] name = "Dr. Bob Jones" -> <<"Dr.", "Bob", "Jones">>
      [] name = "Acme Capital" -> <<"Acme", "Capital">>
      [] OTHER -> <<>>

\* _normalize: lower case, ascii letters only
normalize(word) ==
    CASE word = "Jane" -> "jane"
      [] word = "Smith" -> "smith"
      [] word = "Bob" -> "bob"
      [] word = "Jones" -> "jones"
      [] word = "Dr." -> "dr"
      [] word = "Acme" -> "acme"
      [] word = "Capital" -> "capital"
      [] OTHER -> ""

\* word.lower(), as catchall_detector.py and _match_email_to_name take it
LowerWord(word) ==
    CASE word = "Jane" -> "jane"
      [] word = "Smith" -> "smith"
      [] word = "Bob" -> "bob"
      [] word = "Jones" -> "jones"
      [] word = "Dr." -> "dr."
      [] word = "Acme" -> "acme"
      [] word = "Capital" -> "capital"
      [] OTHER -> word

\* first[0]
Initial(first) ==
    CASE first = "jane" -> "j"
      [] first = "bob" -> "b"
      [] first = "dr" -> "d"
      [] first = "acme" -> "a"
      [] OTHER -> ""

\* the members of _COMPANY_WORDS that occur in the names of the model
COMPANY_WORDS == {"capital"}

\* cleaned name of _is_person_name and _clean_person_name: the prefixes
\* "Meet ", "About ", "Dr. ", "Prof. " and trailing periods are stripped
clean_person_name(name) ==
    CASE name = "Dr. Bob Jones" -> "Bob Jones"
      [] OTHER -> name

\* _is_person_name
is_person_name(name) ==
    /\ name \notin {"", "N/A"}
    /\ Lower(name) # "unknown"
    /\ LET words == Split(clean_person_name(name))
       IN /\ Len(words) >= 2
          /\ Len(words) <= 5
          /\ \A i \in 1..Len(words) : LowerWord(words[i]) \notin COMPANY_WORDS

\* urlparse(website).netloc.lower()
Netloc(website) ==
    CASE website = "https://acme.vc" -> "acme.vc"
      [] OTHER -> ""

\* _extract_domain
extract_domain(website) ==
    IF website \in {"", "N/A"} THEN None
    ELSE IF Netloc(website) = "" THEN None ELSE Netloc(website)

\* _PATTERNS, in the order of the source
PATTERNS ==
    << "{first}.{last}@{domain}", "{first}@{domain}", "{f}{last}@{domain}",
       "{first}{last}@{domain}", "{f}.{last}@{domain}", "{last}@{domain}",
       "{first}_{last}@{domain}", "{last}.{first}@{domain}" >>

DEFAULT_PATTERN == "{first}.{last}@{domain}"

\* local part of pattern.format(first=first, last=last, f=f, domain=...)
FormatLocal(pattern, first, last, f) ==
    CASE pattern = "{first}.{last}@{domain}" -> <<first, ".", last>>
      [] pattern = "{first}@{domain}" -> <<first>>
      [] pattern = "{f}{last}@{domain}" -> <<f, last>>
      [] pattern = "{first}{last}@{domain}" -> <<first, last>>
      [] pattern = "{f}.{last}@{domain}" -> <<f, ".", last>>
      [] pattern = "{last}@{domain}" -> <<last>>
      [] pattern = "{first}_{last}@{domain}" -> <<first, "_", last>>
      [] pattern = "{last}.{first}@{domain}" -> <<last, ".", first>>

\* pattern.format(...) for the first and last word of name, or None when the
\* name has fewer than two words or a word normalizes to nothing
FormatName(pattern, name, domain) ==
    LET parts == Split(name)
    IN IF Len(parts) < 2 THEN NoAddress
       ELSE LET first == normalize(parts[1])
                last == normalize(parts[Len(parts)])
            IN IF first = "" \/ last = "" THEN NoAddress
               ELSE Email(FormatLocal(pattern, first, last, Initial(first)),
                          domain)

\* generate_candidates(name, domain)
generate_candidates(name, domain) ==
    IF FormatName(DEFAULT_PATTERN, name, domain) = NoAddress THEN <<>>
    ELSE [k \in 1..Len(PATTERNS) |-> FormatName(PATTERNS[k], name, domain)]

\* detect_pattern(email, name): the first pattern whose local part is the
\* e-mail's
detect_pattern(email, name) ==
    IF FormatName(DEFAULT_PATTERN, name, email.dom) = NoAddress THEN None
    ELSE IF email.local = <<>> \/ email.dom = "" THEN None
    ELSE LET hits == {k \in 1..Len(PATTERNS) :
                         FormatName(PATTERNS[k], name, email.dom).local
                             = email.local}
         IN IF hits = {} THEN None
            ELSE PATTERNS[CHOOSE k \in hits : \A j \in hits : k <= j]

learnOverwrite(pats, domain, email, name) ==
    IF detect_pattern(email, name) = None THEN pats
    ELSE (domain :> detect_pattern(email, name)) @@ pats

\* _PatternCache.learn
learn(pats, domain, email, name) ==
    IF domain \in DOMAIN pats THEN pats
    ELSE IF detect_pattern(email, name) = None THEN pats
    ELSE (domain :> detect_pattern(email, name)) @@ pats

\* _PatternCache.apply
apply(pats, name, domain) ==
    IF domain \notin DOMAIN pats THEN NoAddress
    ELSE FormatName(pats[domain], name, domain)

\* the "in" test of a name part in a local part
Contains(local, part) == \E i \in 1..Len(local) : local[i] = part

\* _match_email_to_name, the score times 100
match_email_to_name(email, name) ==
    LET parts == Split(name)
        local == email.local
        first == normalize(parts[1])
        last == normalize(parts[Len(parts)])
        f == Initial(first)
    IN IF Len(parts) < 2 THEN 0
       ELSE IF first = "" \/ last = "" THEN 0
       ELSE IF local = <<first, ".", last>> THEN 100
       ELSE IF local = <<first>> THEN 80
       ELSE IF local = <<first, last>> THEN 90
       ELSE IF local = <<f, last>> THEN 85
       ELSE IF local = <<f, ".", last>> THEN 85
       ELSE IF local = <<last>> THEN 60
       ELSE IF local = <<first, "_", last>> THEN 90
       ELSE IF local = <<last, ".", first>> THEN 80
       ELSE IF Contains(local, first) /\ Contains(local, last) THEN 70
       ELSE IF Contains(local, first) THEN 40
       ELSE IF Contains(local, last) THEN 50
       ELSE 0

(***************************************************************************)
(* ---------------------------  EMAIL GUESSER  --------------------------- *)
(***************************************************************************)
\* the organization domains of the model
Domains == {"acme.vc"}

\* outcomes of dns.resolver.resolve(domain, "MX"): an answer with at least
\* one record, or an exception (NXDOMAIN, NoAnswer, timeout)
DnsOutcomes == {"answer", "raises"}

verify_mxStrict(email, dns) == HasAt(email) /\ dns = "answer"

\* EmailValidator.verify_mx: an exception of the lookup counts as "has MX"
verify_mx(email, dns) ==
    IF ~HasAt(email) THEN FALSE
    ELSE IF dns = "answer" THEN TRUE
    ELSE TRUE

NoEmailAlways(e) == TRUE

\* not lead.email or lead.email in ("N/A", "N/A (invalid)")
NoEmail(e) == e = Blank \/ e \in {NA, NAInvalid}

RECURSIVE LearnFromLeads(_, _, _)
\* guess_batch, phase 1: learn patterns from the leads that have an e-mail
LearnFromLeads(ls, i, pats) ==
    IF i > Len(ls) THEN pats
    ELSE LET l == ls[i]
             d == extract_domain(l.website)
         IN LearnFromLeads(ls, i + 1,
                IF /\ ~NoEmail(l.email)
                   /\ HasAt(l.email)
                   /\ d # None
                   /\ is_person_name(l.name)
                THEN learn(pats, d, l.email, l.name)
                ELSE pats)

\* guess_batch, phase 1.5: the leads picked to probe a domain without a
\* pattern: the first person-named lead without e-mail of the domain
ProbeLeads(ls, pats, d) ==
    {i \in 1..Len(ls) :
        /\ NoEmail(ls[i].email)
        /\ is_person_name(ls[i].name)
        /\ extract_domain(ls[i].website) = d
        /\ d \notin DOMAIN pats}

\* number of candidates _discover_domain_pattern probes over SMTP
ProbeCount == 3

\* _discover_domain_pattern for every domain to probe; probe[d] is the
\* position, among the first ProbeCount candidates, of the first one the
\* mail server reports deliverable, 0 when there is none or SMTP is blocked
Discover(ls, pats, probe) ==
    LET hit == {d \in Domains : ProbeLeads(ls, pats, d) # {} /\ probe[d] > 0}
        lead(d) == ls[CHOOSE i \in ProbeLeads(ls, pats, d) :
                          \A j \in ProbeLeads(ls, pats, d) : i <= j]
        clean(d) == clean_person_name(lead(d).name)
    IN [d \in hit |->
           detect_pattern(generate_candidates(clean(d), d)[probe[d]],
                          clean(d))] @@ pats

\* guess_batch, phase 2: is the learned pattern applied to lead l
PatternApplies(l, pats) ==
    /\ NoEmail(l.email)
    /\ is_person_name(l.name)
    /\ extract_domain(l.website) # None
    /\ apply(pats, l.name, extract_domain(l.website)) # NoAddress

\* guess_batch, phase 2: the leads after the learned patterns were applied
ApplyPatterns(ls, pats) ==
    [i \in 1..Len(ls) |->
        IF PatternApplies(ls[i], pats)
        THEN [ls[i] EXCEPT
                 !.email = apply(pats, ls[i].name,
                                 extract_domain(ls[i].website))]
        ELSE ls[i]]

\* _generate_best_email
generate_best_email(pats, name, domain) ==
    LET clean == clean_person_name(name)
    IN IF apply(pats, clean, domain) # NoAddress THEN apply(pats, clean, domain)
       ELSE FormatName(DEFAULT_PATTERN, clean, domain)

\* EmailGuesser.guess; dns[d] is the outcome of the MX lookup of domain d
guess(pats, name, website, dns) ==
    IF ~is_person_name(name) THEN NoAddress
    ELSE IF extract_domain(website) = None THEN NoAddress
    ELSE IF ~verify_mx(Email(<<"probe">>, extract_domain(website)),
                       dns[extract_domain(website)]) THEN NoAddress
    ELSE generate_best_email(pats, name, extract_domain(website))

\* guess_batch, phase 2: the leads appended to still_no_email
StillNoEmail(ls, pats) ==
    {i \in 1..Len(ls) : NoEmail(ls[i].email) /\ ~PatternApplies(ls[i], pats)}

RECURSIVE DefaultGuess(_, _, _, _, _)
\* guess_batch, phase 3: _process for the leads of still_no_email; the
\* result is the list and the pattern cache.  The coroutines of the gather
\* are taken in list order: whichever finishes first, every lead of a domain
\* gets the default pattern applied to its cleaned name.
DefaultGuess(ls, still, i, pats, dns) ==
    IF i > Len(ls) THEN [leads |-> ls, patterns |-> pats]
    ELSE LET l == ls[i]
             guessed == guess(pats, l.name, l.website, dns)
         IN IF i \in still /\ is_person_name(l.name) /\ guessed # NoAddress
            THEN DefaultGuess([ls EXCEPT ![i].email = guessed], still, i + 1,
                     learn(pats, extract_domain(l.website), guessed, l.name),
                     dns)
            ELSE DefaultGuess(ls, still, i + 1, pats, dns)

\* guess_batch, phases 2 and 3
ApplyAndGuess(ls, pats, dns) ==
    DefaultGuess(ApplyPatterns(ls, pats), StillNoEmail(ls, pats), 1, pats, dns)

(***************************************************************************)
(* ------------------------  OSINT ENRICHMENT  --------------------------- *)
(***************************************************************************)
\* addresses the outside sources (DNS records, search results, commits,
\* filings, archived pages, key servers, rendered pages) can hold
Mailboxes ==
    {Email(<<"jane", ".", "smith">>, "acme.vc"),
     Email(<<"info">>, "acme.vc"),
     Email(<<"bob", ".", "jones">>, "gmail.com")}

\* the lists of distinct addresses one search can return: at most two
FoundLists ==
    {s \in ListsUpTo(Mailboxes, 2) :
        \A i, j \in 1..Len(s) : i # j => s[i] # s[j]}

\* least score at which a found address is given to a lead, times 100
MatchThreshold == 30

\* netloc.lower().replace("www.", "") of the lead's website, "" without one
SiteDomain(website) ==
    IF website \in {"", "N/A"} THEN "" ELSE Netloc(website)

\* domain_leads[d]: positions of the leads without e-mail of domain d
DomainGroup(ls, d) ==
    {i \in 1..Len(ls) : NoEmail(ls[i].email) /\ SiteDomain(ls[i].website) = d}

\* list.remove(x)
Remove(s, x) ==
    LET k == CHOOSE i \in 1..Len(s) : s[i] = x /\ \A j \in 1..(i-1) : s[j] # x
    IN SubSeq(s, 1, k - 1) \o SubSeq(s, k + 1, Len(s))

\* the first address that scores above 0
BestMatchFirst(unmatched, name) ==
    LET hits == {k \in 1..Len(unmatched) :
                    match_email_to_name(unmatched[k], name) > 0}
    IN IF hits = {} THEN 0 ELSE CHOOSE k \in hits : \A j \in hits : k <= j

\* position in unmatched of best_email for name: the first address whose
\* score is the largest, 0 when every score is 0
BestMatch(unmatched, name) ==
    LET sc(k) == match_email_to_name(unmatched[k], name)
        top == {k \in 1..Len(unmatched) :
                   /\ sc(k) > 0
                   /\ \A j \in 1..Len(unmatched) : sc(j) <= sc(k)}
    IN IF top = {} THEN 0 ELSE CHOOSE k \in top : \A j \in top : k <= j

RECURSIVE MatchPass(_, _, _, _, _, _)
\* first pass of a module over the leads of one domain group, in list order:
\* each lead still without e-mail (recheck = TRUE: the pass looks at the
\* lead's e-mail again) gets the best-matching unmatched address.  The
\* result is the list and the addresses left unmatched.
MatchPass(ls, group, i, unmatched, status, recheck) ==
    IF i > Len(ls) THEN [leads |-> ls, unmatched |-> unmatched]
    ELSE IF i \notin group \/ (recheck /\ ~NoEmail(ls[i].email))
    THEN MatchPass(ls, group, i + 1, unmatched, status, recheck)
    ELSE LET k == BestMatch(unmatched, ls[i].name)
         IN IF k > 0 /\ match_email_to_name(unmatched[k], ls[i].name)
                           >= MatchThreshold
            THEN MatchPass([ls EXCEPT ![i].email = unmatched[k],
                                      ![i].email_status = status],
                           group, i + 1, Remove(unmatched, unmatched[k]),
                           status, recheck)
            ELSE MatchPass(ls, group, i + 1, unmatched, status, recheck)

\* the addresses of a list that end with "@" + domain
OnDomain(s, d) == SelectSeq(s, LAMBDA e : e.dom = d)

RECURSIVE FallbackPass(_, _, _, _, _, _)
\* second pass: the leads of the group still without e-mail take the
\* unmatched addresses in order (strict: only those of domain d)
FallbackPass(ls, group, i, unmatched, status, d) ==
    IF i > Len(ls) THEN ls
    ELSE IF i \notin group \/ ~NoEmail(ls[i].email)
    THEN FallbackPass(ls, group, i + 1, unmatched, status, d)
    ELSE LET usable == IF d = "" THEN unmatched ELSE OnDomain(unmatched, d)
         IN IF usable # <<>>
            THEN FallbackPass([ls EXCEPT ![i].email = usable[1],
                                         ![i].email_status = status],
                              group, i + 1, Remove(unmatched, usable[1]),
                              status, d)
            ELSE FallbackPass(ls, group, i + 1, unmatched, status, d)

\* the list after every domain group was processed; R(d) is the list after
\* the group of domain d alone was processed (groups are disjoint and a
\* group's processing writes only to its own leads)
PerDomain(ls, R(_)) ==
    [i \in 1..Len(ls) |->
        LET ds == {d \in Domains : i \in DomainGroup(ls, d)}
        IN IF ds = {} THEN ls[i] ELSE R(CHOOSE d \in ds : TRUE)[i]]

\* positions of the leads without e-mail: no_email
NoEmailLeads(ls) == {i \in 1..Len(ls) : NoEmail(ls[i].email)}

\* DNSHarvester.enrich_batch; found[d] is what search_domain(d) returned
dns_harvest(ls, found) ==
    PerDomain(ls, LAMBDA d :
        LET m == MatchPass(ls, DomainGroup(ls, d), 1, found[d],
                           "dns_harvest", TRUE)
        IN FallbackPass(m.leads, DomainGroup(ls, d), 1, m.unmatched,
                        "dns_harvest", d))

\* per-domain limits of the per-person searches of the dorker and the miner
DorkPersonLimit == 3

MinePersonLimit == 5

\* phase 2 of the dorker and of the commit miner: the first limit leads of
\* the group still without e-mail take the address the per-person search
\* returned, person[i], if any
PersonPass(ls, group, limit, person, status) ==
    LET still == {i \in group : NoEmail(ls[i].email)}
        first == {i \in still : Cardinality({j \in still : j < i}) < limit}
    IN [i \in 1..Len(ls) |->
           IF i \in first /\ person[i] # NoAddress
           THEN [ls[i] EXCEPT !.email = person[i], !.email_status = status]
           ELSE ls[i]]

\* GoogleDorker.enrich_batch
google_dorker(ls, found, person) ==
    PerDomain(ls, LAMBDA d :
        PersonPass(MatchPass(ls, DomainGroup(ls, d), 1, found[d],
                             "dorked", TRUE).leads,
                   DomainGroup(ls, d), DorkPersonLimit, person, "dorked"))

\* addresses with an avatar registered at Gravatar or Libravatar
Avatars ==
    {Email(<<"j", "smith">>, "acme.vc"), Email(<<"acme">>, "acme.vc")}

\* GravatarOracle._probe_candidates: the first candidate that has an avatar
Confirmed(candidates, avatars) ==
    LET hits == {k \in 1..Len(candidates) : candidates[k] \in avatars}
    IN IF hits = {} THEN NoAddress
       ELSE candidates[CHOOSE k \in hits : \A j \in hits : k <= j]

\* GravatarOracle.enrich_batch
gravatar_oracle(ls, avatars) ==
    PerDomain(ls, LAMBDA d :
        [i \in 1..Len(ls) |->
            IF /\ i \in DomainGroup(ls, d)
               /\ Confirmed(generate_candidates(ls[i].name, d), avatars) # NoAddress
            THEN [ls[i] EXCEPT
                     !.email = Confirmed(generate_candidates(ls[i].name, d),
                                         avatars),
                     !.email_status = "gravatar_confirmed"]
            ELSE ls[i]])

\* the lists a key-server search can return
KeyLists == FoundLists

\* PGPKeyserverScraper.enrich_batch: the address of the lead's domain if the
\* search returned one, else the first address returned
BestKey(emails, target_domain) ==
    IF OnDomain(emails, target_domain) # <<>>
    THEN OnDomain(emails, target_domain)[1]
    ELSE emails[1]

\* PGPKeyserverScraper.enrich_batch; keys[i] is what search_by_name
\* returned for lead i
pgp_keyserver(ls, keys) ==
    [i \in 1..Len(ls) |->
        IF NoEmail(ls[i].email) /\ keys[i] # <<>>
        THEN [ls[i] EXCEPT
                 !.email = BestKey(keys[i], SiteDomain(ls[i].website)),
                 !.email_status = "pgp_keyserver"]
        ELSE ls[i]]

\* GitHubMiner.enrich_batch
github_miner(ls, found, person) ==
    PerDomain(ls, LAMBDA d :
        PersonPass(MatchPass(ls, DomainGroup(ls, d), 1, found[d],
                             "github", TRUE).leads,
                   DomainGroup(ls, d), MinePersonLimit, person, "github"))

\* SECEdgarScraper.enrich_batch
sec_edgar(ls, found) ==
    PerDomain(ls, LAMBDA d :
        MatchPass(ls, DomainGroup(ls, d), 1, found[d], "sec_edgar", TRUE).leads)

\* WaybackEnricher.enrich_batch
wayback(ls, found) ==
    PerDomain(ls, LAMBDA d :
        MatchPass(ls, DomainGroup(ls, d), 1, found[d], "wayback", TRUE).leads)

\* CatchAllDetector.enrich_batch on a catch-all domain: first.last@domain
\* from the lower-cased first and last word of the name, first@domain for a
\* one-word name
CatchAllGuess(name, d) ==
    LET words == Split(name)
    IN IF Len(words) > 1
       THEN Email(<<LowerWord(words[1]), ".", LowerWord(words[Len(words)])>>, d)
       ELSE Email(<<LowerWord(words[1])>>, d)

\* CatchAllDetector.enrich_batch, phase 1, for the group of a catch-all
\* domain d
CatchAllGenerate(ls, d) ==
    [i \in 1..Len(ls) |->
        IF i \in DomainGroup(ls, d) /\ NoEmail(ls[i].email)
        THEN [ls[i] EXCEPT !.email = CatchAllGuess(ls[i].name, d),
                           !.email_status = "catch_all_generated"]
        ELSE ls[i]]

\* CatchAllDetector.enrich_batch, phase 2, for the group of a domain d that
\* is not catch-all; found[d] is what the rendered pages held
JsScrape(ls, d, found) ==
    LET m == MatchPass(ls, DomainGroup(ls, d), 1, found[d], "js_scrape", FALSE)
    IN FallbackPass(m.leads, DomainGroup(ls, d), 1, m.unmatched,
                    "js_scrape", "")

\* CatchAllDetector.enrich_batch; is_catch_all[d] is _check_catch_all(d)
catchall_detector(ls, is_catch_all, found) ==
    PerDomain(ls, LAMBDA d :
        IF is_catch_all[d] THEN CatchAllGenerate(ls, d)
        ELSE JsScrape(ls, d, found))

(***************************************************************************)
(* ----------------------  VALIDATION AND SCORING  ----------------------- *)
(***************************************************************************)
\* the members of DISPOSABLE_DOMAINS and ROLE_PREFIXES the model uses
DISPOSABLE_DOMAINS == {"mailinator.com"}

ROLE_PREFIXES == {<<"info">>}

\* EmailValidator.validate: the quality of an e-mail string
validate(e) ==
    IF e = Blank \/ e = NA THEN "invalid"
    ELSE IF ~HasAt(e) THEN "invalid"
    ELSE IF e.dom \in DISPOSABLE_DOMAINS THEN "low"
    ELSE IF e.local \in ROLE_PREFIXES THEN "medium"
    ELSE "high"

\* the e-mail the engine keeps after validate_batch; dns is the outcome of
\* the MX lookup
Validated(e, dns) ==
    IF validate(e) = "invalid" THEN NA
    ELSE IF ~verify_mx(e, dns) THEN NA
    ELSE IF validate(e) = "low" THEN NA
    ELSE e

\* lead.email and lead.email != "N/A" and "@" in lead.email
HasEmail(e) == e # Blank /\ e # NA /\ HasAt(e)

\* weights and modifiers of LeadScorer's default configuration
StageWeight == 30

SectorWeight == 25

CheckSizeWeight == 20

HasEmailBonus == 10

NoEmailPenalty == 15

\* LeadScorer._score_stage for the startup stage "seed"
score_stage(stage) ==
    IF stage \in {"", "N/A"} THEN StageWeight \div 3
    ELSE IF stage = "Seed" THEN StageWeight
    ELSE 0

ClampUpper(total) == IF total > 100 THEN 100 ELSE total

\* max(0, min(100, total))
Clamp(total) == IF total < 0 THEN 0 ELSE IF total > 100 THEN 100 ELSE total

\* LeadScorer.score for a lead without sectors, check size and LinkedIn
score(lead) ==
    Clamp(score_stage(lead.stage) + SectorWeight \div 4 + CheckSizeWeight \div 3
          + (IF lead.email # Blank /\ lead.email # NA
             THEN HasEmailBonus ELSE 0 - NoEmailPenalty))

\* LeadScorer.score_batch
score_batch(ls) ==
    LET scored == [i \in 1..Len(ls) |-> [ls[i] EXCEPT !.lead_score = score(ls[i])]]
    IN SortByScore(scored, Len(scored))

(***************************************************************************)
(* ----------------------  THE ENRICHMENT PIPELINE  ---------------------- *)
(***************************************************************************)
MaxRuns == 2           \* pipeline runs over the same leads explored

\* the modules CrawlEngine._run_greyhat_enrichment calls, in its order, and
\* its final tagging loop
GreyhatSteps ==
    <<"dns", "dorker", "gravatar", "pgp", "github", "edgar", "wayback",
      "catchall", "mark_greyhat">>

\* the steps of CrawlEngine._enrich_and_output, in its order; guess_batch is
\* the two steps "learn" (phases 1 and 1.5) and "guess" (phases 2 and 3)
EngineSteps ==
    <<"filter", "validate", "mark_scraped", "learn", "guess", "mark_guessed">>
    \o GreyhatSteps \o <<"smtp", "score", "output">>

\* the steps when the stages are called on their own, one after the other:
\* guess_batch, then the enrich_batch of every module
StageSteps ==
    <<"learn", "guess", "dns", "dorker", "gravatar", "pgp", "github",
      "edgar", "wayback", "catchall">>

\* the steps of the current caller with the flags applied
Steps ==
    IF args.caller = "engine"
    THEN SelectSeq(EngineSteps, LAMBDA st :
             /\ ~(args.skip_greyhat /\ st \in Range(GreyhatSteps))
             /\ ~(args.skip_smtp /\ st = "smtp"))
    ELSE StageSteps

\* the step that follows step
After(step) ==
    LET k == CHOOSE i \in 1..Len(Steps) : Steps[i] = step
    IN IF k = Len(Steps) THEN "done" ELSE Steps[k + 1]

\* step has completed: the caller moves on
Completes(step) ==
    /\ epc' = After(step)
    /\ ran' = ran \cup {step}
    /\ UNCHANGED <<args, runs, first_run, crawlVars, otherVars>>

\* leads as src/test_greyhat_yield.py builds them (FakeLead): the attribute
\* email_status exists and is "unknown"; a lead without website has no
\* e-mail either
StageLeads ==
    {Lead(0, n, "Acme Capital", "https://acme.vc", e, "unknown", "N/A", 0) :
        n \in {"Jane Smith", "Dr. Bob Jones", "Acme Capital"},
        e \in {NA, NAInvalid, Blank, Email(<<"jane">>, "acme.vc")}}
    \cup
    {Lead(0, n, "Acme Capital", "N/A", NA, "unknown", "N/A", 0) :
        n \in {"Jane Smith", "Dr. Bob Jones", "Acme Capital"}}

\* leads as the adapters and the deep crawler build them (InvestorLead): the
\* dataclass has no email_status attribute; persons, and the fund-level row
\* of the directory (name == fund name)
EngineLeads ==
    {Lead(0, p[1], "Acme Capital", "https://acme.vc", e, "<unset>", p[2], 0) :
        p \in {<<"Jane Smith", "Seed">>, <<"Dr. Bob Jones", "N/A">>},
        e \in {NA, Email(<<"jane">>, "acme.vc"), Email(<<"info">>, "acme.vc"),
               Email(<<"jane">>, "mailinator.com")}}
    \cup
    {Lead(0, "Acme Capital", "Acme Capital", "https://acme.vc", NA, "<unset>",
          "N/A", 0)}

\* the non-empty lists of at most MaxLeads leads of S, as distinct objects
LeadLists(S) ==
    {Numbered(ls) : ls \in ListsUpTo(S, MaxLeads) \ {<<>>}}

\* a fresh EmailGuesser, EmailValidator and history
FreshPipeline ==
    /\ patterns = EmptyDict
    /\ smtp_cache = [available |-> "unknown", results |-> EmptyDict]
    /\ ran = {}
    /\ runs = 1
    /\ first_run = <<>>

StagesInit ==
    /\ CrawlIdle
    /\ MasterIdle
    /\ OtherIdle
    /\ FreshPipeline
    /\ all_leads \in LeadLists(StageLeads)
    /\ args = [caller |-> "stages", skip_greyhat |-> FALSE, skip_smtp |-> FALSE]
    /\ epc = "learn"

Init ==
    /\ CrawlIdle
    /\ MasterIdle
    /\ OtherIdle
    /\ FreshPipeline
    /\ all_leads \in LeadLists(EngineLeads)
    /\ args \in [caller : {"engine"}, skip_greyhat : BOOLEAN,
                 skip_smtp : BOOLEAN]
    /\ epc = "filter"

\* filter of the fund-level rows: name == fund name
FilterFundRows ==
    /\ epc = "filter"
    /\ all_leads' = SelectSeq(all_leads,
                        LAMBDA l : Lower(l.name) # Lower(l.fund))
    /\ Completes("filter")
    /\ UNCHANGED <<patterns, smtp_cache, masterVars>>

\* validate_batch and the rewrite of rejected e-mails to "N/A"
ValidateEmails ==
    /\ epc = "validate"
    /\ \E dns \in [Domains \cup DISPOSABLE_DOMAINS -> DnsOutcomes] :
          all_leads' = [i \in 1..Len(all_leads) |->
              [all_leads[i] EXCEPT
                  !.email = Validated(@, IF HasAt(@) THEN dns[@.dom]
                                         ELSE "answer")]]
    /\ Completes("validate")
    /\ UNCHANGED <<patterns, smtp_cache, masterVars>>

\* "Mark scraped emails"
MarkScraped ==
    /\ epc = "mark_scraped"
    /\ all_leads' = [i \in 1..Len(all_leads) |->
          IF HasEmail(all_leads[i].email)
          THEN [all_leads[i] EXCEPT !.email_status = "scraped"]
          ELSE all_leads[i]]
    /\ Completes("mark_scraped")
    /\ UNCHANGED <<patterns, smtp_cache, masterVars>>

\* guess_batch, phases 1 and 1.5
GuessLearn ==
    /\ epc = "learn"
    /\ \E probe \in [Domains -> 0..ProbeCount] :
          patterns' = Discover(all_leads,
                          LearnFromLeads(all_leads, 1, patterns), probe)
    /\ Completes("learn")
    /\ UNCHANGED <<all_leads, smtp_cache, masterVars>>

\* guess_batch, phases 2 and 3
GuessApply ==
    /\ epc = "guess"
    /\ \E dns \in [Domains -> DnsOutcomes] :
          /\ all_leads' = ApplyAndGuess(all_leads, patterns, dns).leads
          /\ patterns' = ApplyAndGuess(all_leads, patterns, dns).patterns
    /\ Completes("guess")
    /\ UNCHANGED <<smtp_cache, masterVars>>

\* positions of the leads that do not have the attribute email_status
Unset(ls) == {i \in 1..Len(ls) : ls[i].email_status = "<unset>"}

\* the tagging loops of the engine over leads[1..n]: status "unknown" with
\* an e-mail becomes tag
Tagged(ls, n, tag) ==
    [i \in 1..Len(ls) |->
        IF i <= n /\ ls[i].email_status = "unknown" /\ HasEmail(ls[i].email)
        THEN [ls[i] EXCEPT !.email_status = tag]
        ELSE ls[i]]

\* "Mark guessed emails": every lead has the attribute
MarkGuessed ==
    /\ epc = "mark_guessed"
    /\ Unset(all_leads) = {}
    /\ all_leads' = Tagged(all_leads, Len(all_leads), "guessed")
    /\ Completes("mark_guessed")
    /\ UNCHANGED <<patterns, smtp_cache, masterVars>>

\* "Mark guessed emails": reading lead.email_status of a lead that never got
\* the attribute raises AttributeError, which nothing catches: the run ends
MarkGuessedRaises ==
    /\ epc = "mark_guessed"
    /\ Unset(all_leads) # {}
    /\ LET k == CHOOSE i \in Unset(all_leads) :
                    \A j \in Unset(all_leads) : i <= j
       IN all_leads' = Tagged(all_leads, k - 1, "guessed")
    /\ epc' = "aborted"
    /\ UNCHANGED <<patterns, smtp_cache, masterVars, args, runs, first_run,
                   ran, crawlVars, otherVars>>

\* what the domain-wide search of a module returned, per domain
Found == [Domains -> FoundLists]

\* what the per-person search of a module returned for the leads without
\* e-mail
PersonHits(ls) == [NoEmailLeads(ls) -> Mailboxes \cup {NoAddress}]

\* DNSHarvester(...).enrich_batch(leads)
DnsHarvest ==
    /\ epc = "dns"
    /\ \E found \in Found : all_leads' = dns_harvest(all_leads, found)
    /\ Completes("dns")
    /\ UNCHANGED <<patterns, smtp_cache, masterVars>>

\* GoogleDorker(...).enrich_batch(leads)
Dorker ==
    /\ epc = "dorker"
    /\ \E found \in Found, person \in PersonHits(all_leads) :
          all_leads' = google_dorker(all_leads, found, person)
    /\ Completes("dorker")
    /\ UNCHANGED <<patterns, smtp_cache, masterVars>>

\* GravatarOracle(...).enrich_batch(leads)
Gravatar ==
    /\ epc = "gravatar"
    /\ \E avatars \in SUBSET Avatars :
          all_leads' = gravatar_oracle(all_leads, avatars)
    /\ Completes("gravatar")
    /\ UNCHANGED <<patterns, smtp_cache, masterVars>>

\* PGPKeyserverScraper(...).enrich_batch(leads)
Pgp ==
    /\ epc = "pgp"
    /\ \E keys \in [NoEmailLeads(all_leads) -> KeyLists] :
          all_leads' = pgp_keyserver(all_leads,
              [i \in 1..Len(all_leads) |->
                  IF i \in DOMAIN keys THEN keys[i] ELSE <<>>])
    /\ Completes("pgp")
    /\ UNCHANGED <<patterns, smtp_cache, masterVars>>

\* GitHubMiner(...).enrich_batch(leads)
Github ==
    /\ epc = "github"
    /\ \E found \in Found, person \in PersonHits(all_leads) :
          all_leads' = github_miner(all_leads, found, person)
    /\ Completes("github")
    /\ UNCHANGED <<patterns, smtp_cache, masterVars>>

\* SECEdgarScraper().enrich_batch(leads)
Edgar ==
    /\ epc = "edgar"
    /\ \E found \in Found : all_leads' = sec_edgar(all_leads, found)
    /\ Completes("edgar")
    /\ UNCHANGED <<patterns, smtp_cache, masterVars>>

\* WaybackEnricher(...).enrich_batch(leads)
Wayback ==
    /\ epc = "wayback"
    /\ \E found \in Found : all_leads' = wayback(all_leads, found)
    /\ Completes("wayback")
    /\ UNCHANGED <<patterns, smtp_cache, masterVars>>

\* CatchAllDetector(...).enrich_batch(leads)
CatchAll ==
    /\ epc = "catchall"
    /\ \E is_catch_all \in [Domains -> BOOLEAN], found \in Found :
          all_leads' = catchall_detector(all_leads, is_catch_all, found)
    /\ Completes("catchall")
    /\ UNCHANGED <<patterns, smtp_cache, masterVars>>

\* CatchAllDetector.enrich_batch: a domain is not catch-all and the launch
\* of the browser for the JS scrape raises; nothing catches it, the caller
\* ends.  The groups of the catch-all domains were filled before.
CatchAllRaises ==
    /\ epc = "catchall"
    /\ \E is_catch_all \in [Domains -> BOOLEAN] :
          /\ \E d \in Domains :
                ~is_catch_all[d] /\ DomainGroup(all_leads, d) # {}
          /\ all_leads' = PerDomain(all_leads, LAMBDA d :
                IF is_catch_all[d] THEN CatchAllGenerate(all_leads, d)
                ELSE all_leads)
    /\ epc' = "aborted"
    /\ UNCHANGED <<patterns, smtp_cache, masterVars, args, runs, first_run,
                   ran, crawlVars, otherVars>>

\* the final loop of _run_greyhat_enrichment: tag "greyhat"
MarkGreyhat ==
    /\ epc = "mark_greyhat"
    /\ Unset(all_leads) = {}
    /\ all_leads' = Tagged(all_leads, Len(all_leads), "greyhat")
    /\ Completes("mark_greyhat")
    /\ UNCHANGED <<patterns, smtp_cache, masterVars>>

\* what verify_smtp can report for an address: deliverable True without or
\* with catch_all, deliverable False, deliverable None
SmtpOutcomes == {"deliverable", "catch_all", "rejected", "indeterminate"}

SmtpAnswerUncached(cache, e, answer) == answer

\* EmailValidator.verify_smtp: the cached result of the address if there is
\* one, else the server's answer
SmtpAnswer(cache, e, answer) ==
    IF e \in DOMAIN cache.results THEN cache.results[e] ELSE answer

\* the e-mail_status the engine derives from an SMTP result
StatusAfterSmtp(lead, outcome) ==
    CASE outcome = "deliverable" -> "verified"
      [] outcome = "catch_all" -> "catch_all"
      [] outcome = "rejected" -> "undeliverable"
      [] OTHER -> lead.email_status

\* e-mails of smtp_candidates
SmtpCandidates(ls) ==
    {ls[i].email : i \in {j \in 1..Len(ls) : HasEmail(ls[j].email)}}

\* SMTP batch verification; available is the outcome of smtp_self_test when
\* it is run, answers the servers' answers to the RCPT TO probes
VerifySmtp ==
    /\ epc = "smtp"
    /\ \E available \in {"yes", "no"},
          answers \in [SmtpCandidates(all_leads) -> SmtpOutcomes] :
          LET tested == IF SmtpCandidates(all_leads) # {}
                           /\ smtp_cache.available = "unknown"
                        THEN available ELSE smtp_cache.available
              answer_of(e) == IF tested = "yes"
                              THEN SmtpAnswer(smtp_cache, e, answers[e])
                              ELSE "indeterminate"
          IN /\ all_leads' = [i \in 1..Len(all_leads) |->
                    IF HasEmail(all_leads[i].email)
                    THEN [all_leads[i] EXCEPT !.email_status =
                             StatusAfterSmtp(all_leads[i],
                                             answer_of(all_leads[i].email))]
                    ELSE all_leads[i]]
             /\ smtp_cache' =
                    [available |-> tested,
                     results |-> IF tested = "yes"
                                 THEN [e \in SmtpCandidates(all_leads) |->
                                          answer_of(e)] @@ smtp_cache.results
                                 ELSE smtp_cache.results]
    /\ Completes("smtp")
    /\ UNCHANGED <<patterns, masterVars>>

\* "Lead scoring"
ScoreLeads ==
    /\ epc = "score"
    /\ all_leads' = score_batch(all_leads)
    /\ Completes("score")
    /\ UNCHANGED <<patterns, smtp_cache, masterVars>>

\* "Output": write_master(all_leads)
Output ==
    /\ epc = "output"
    /\ master' = MasterFile(all_leads)
    /\ Completes("output")
    /\ UNCHANGED <<all_leads, patterns, smtp_cache, wpc>>

\* the pipeline is run again over the leads a complete run left, by the
\* same engine
Rerun ==
    /\ epc = "done"
    /\ args.caller = "engine"
    /\ runs < MaxRuns
    /\ runs' = runs + 1
    /\ first_run' = IF runs = 1 THEN all_leads ELSE first_run
    /\ ran' = {}
    /\ epc' = Steps[1]
    /\ UNCHANGED <<all_leads, patterns, smtp_cache, args, masterVars,
                   crawlVars, otherVars>>

StagesNext ==
    \/ GuessLearn
    \/ GuessApply
    \/ DnsHarvest
    \/ Dorker
    \/ Gravatar
    \/ Pgp
    \/ Github
    \/ Edgar
    \/ Wayback
    \/ CatchAll
    \/ CatchAllRaises

SpecStages == StagesInit /\ [][StagesNext]_vars

Next ==
    \/ FilterFundRows
    \/ ValidateEmails
    \/ MarkScraped
    \/ GuessLearn
    \/ GuessApply
    \/ MarkGuessed
    \/ MarkGuessedRaises
    \/ DnsHarvest
    \/ Dorker
    \/ Gravatar
    \/ Pgp
    \/ Github
    \/ Edgar
    \/ Wayback
    \/ CatchAll
    \/ MarkGreyhat
    \/ VerifySmtp
    \/ ScoreLeads
    \/ Output
    \/ Rerun

Spec == Init /\ [][Next]_vars

(***************************************************************************)
(* PROPERTIES OF THE ENRICHMENT PIPELINE                                   *)
(***************************************************************************)

\* the values of the e-mail field that mean "missing"
Sentinels == {Blank, NA, NAInvalid}

\* the provenance tags the enrichment modules write
StageTags ==
    {"dns_harvest", "dorked", "gravatar_confirmed", "pgp_keyserver", "github",
     "sec_edgar", "wayback", "catch_all_generated", "js_scrape"}

\* C1: during an enrichment run, a contact whose e-mail is resolved (not
\* empty, not a sentinel) keeps that e-mail through every later stage (pattern
\* guesser, DNS harvester, dorker, avatar oracle, key-server search, commit
\* miner, filings search, archive miner, catch-all/JS scraper): a stage
\* writes an e-mail only to a contact whose e-mail is still missing.
C1_ResolvedEmailKept ==
    [][\A i \in 1..Len(all_leads) :
          all_leads[i].email \notin Sentinels
              => /\ i <= Len(all_leads')
                 /\ all_leads'[i].id = all_leads[i].id
                 /\ all_leads'[i].email = all_leads[i].email]_vars

\* all stages have run: one contact came with a resolved e-mail and still
\* has it, another one got its e-mail from a stage
C1_Witness ==
    /\ epc = "done"
    /\ \E i, j \in 1..Len(all_leads) :
          /\ all_leads[i].name = "Dr. Bob Jones"
          /\ all_leads[i].email = Email(<<"jane">>, "acme.vc")
          /\ all_leads[i].email_status = "unknown"
          /\ all_leads[j].email \notin Sentinels
          /\ all_leads[j].email_status \in StageTags

\* the contacts of ls as the triples the idempotence is about
Resolved(ls) ==
    {<<ls[i].id, ls[i].email, ls[i].email_status, ls[i].lead_score>> :
        i \in 1..Len(ls)}

C3_GuessesFollowLearnedPattern ==
    [][\A i \in 1..Len(all_leads) :
          (/\ i <= Len(all_leads')
           /\ all_leads'[i].email # all_leads[i].email
           /\ \/ epc = "guess"
              \/ all_leads'[i].email_status = "catch_all_generated"
           /\ all_leads'[i].email.dom \in DOMAIN patterns)
              => all_leads'[i].email =
                     apply(patterns, all_leads[i].name,
                           all_leads'[i].email.dom)]_vars

\* C5: at every point of an enrichment run, no contact carries the
\* provenance tag "verified" while its e-mail field holds a sentinel.
C5_VerifiedHasEmail ==
    \A i \in 1..Len(all_leads) :
        all_leads[i].email_status = "verified"
            => all_leads[i].email \notin Sentinels

\* the SMTP step has verified the e-mail of a contact
C5_Witness ==
    /\ "smtp" \in ran
    /\ \E i \in 1..Len(all_leads) :
          /\ all_leads[i].email_status = "verified"
          /\ HasEmail(all_leads[i].email)

\* C10: if one enrichment module raises while it processes the contacts,
\* every remaining module of the pipeline still runs on the same contacts:
\* a run never ends before every step of the pipeline has run.
C10_RemainingModulesRun ==
    epc \in {"done", "aborted"}
        => \A k \in 1..Len(Steps) : Steps[k] \in ran

(***************************************************************************)
(* -------------------  PAGINATION OF A SITE ADAPTER  -------------------- *)
(***************************************************************************)
MaxBudget == 3         \* largest scroll_count / max_clicks / max_pages

\* the pagination strategies _paginate_and_extract routes to
Strategies == {"infinite_scroll", "load_more_button", "numbered_pages"}

\* a name that no card of the page has shown yet
NextName(known) == Cardinality(known) + 1

\* _extract_from_page: every named card that is not yet in self.leads, by
\* name, is appended
ExtractFromPage(known, on_page) == known \cup on_page

\* range(n) still has a value for the loop variable i
InRangeOneMore(i, n) == i <= n

InRange(i, n) == i < n

\* BaseSiteAdapter.run has loaded the page and calls _paginate_and_extract
AdapterInit ==
    /\ CrawlIdle
    /\ MasterIdle
    /\ EnrichIdle
    /\ ValidatorIdle
    /\ DetectorIdle
    /\ LateIdle
    /\ pagination \in [type : Strategies, budget : 1..MaxBudget,
                      stale_rounds : 1..MaxBudget]
    /\ apc = "loop"
    /\ step_no = 0
    /\ cards \in {{}, {1}}
    /\ adapter_leads = {}
    /\ extracts = 0
    /\ shown = {}
    /\ idle_rounds = 0
    /\ page_closed = FALSE

\* the page or the browser closes or crashes at any moment
PageCloses ==
    /\ apc = "loop"
    /\ ~page_closed
    /\ page_closed' = TRUE
    /\ UNCHANGED <<pagination, apc, step_no, cards, adapter_leads, extracts,
                   shown, idle_rounds>>
    /\ UNCHANGED <<crawlVars, masterVars, enrichVars, validatorVars,
                   detectorVars, lateVars>>

\* a call of _extract_from_page on the current page state that ends the
\* handler: page.content() raises when the page is gone
FinalExtract ==
    IF page_closed
    THEN /\ apc' = "raised"
         /\ UNCHANGED <<adapter_leads, extracts>>
    ELSE /\ apc' = "done"
         /\ adapter_leads' = ExtractFromPage(adapter_leads, cards)
         /\ extracts' = extracts + 1

\* _handle_infinite_scroll, one round of the for loop: the wheel event, the
\* load indicator (its timeouts are swallowed) and the delay; the page adds
\* a card with a new name, re-renders cards it has shown before, or nothing
ScrollRound ==
    /\ apc = "loop"
    /\ pagination.type = "infinite_scroll"
    /\ InRange(step_no, pagination.budget)
    /\ ~page_closed
    /\ \E content \in {"new", "repeat", "nothing"} :
          /\ cards' = IF content = "new" THEN cards \cup {NextName(cards)}
                      ELSE cards
          /\ idle_rounds' = IF content = "nothing" THEN idle_rounds + 1
                            ELSE 0
    /\ shown' = shown \cup cards
    /\ step_no' = step_no + 1
    /\ UNCHANGED <<pagination, apc, adapter_leads, extracts, page_closed>>
    /\ UNCHANGED <<crawlVars, masterVars, enrichVars, validatorVars,
                   detectorVars, lateVars>>

\* _handle_infinite_scroll: page.mouse.wheel or wait_for_timeout raises; the
\* loop has no try around them, the exception leaves the handler
ScrollRaises ==
    /\ apc = "loop"
    /\ pagination.type = "infinite_scroll"
    /\ InRange(step_no, pagination.budget)
    /\ page_closed
    /\ apc' = "raised"
    /\ UNCHANGED <<pagination, step_no, cards, adapter_leads, extracts, shown,
                   idle_rounds, page_closed>>
    /\ UNCHANGED <<crawlVars, masterVars, enrichVars, validatorVars,
                   detectorVars, lateVars>>

\* _handle_infinite_scroll: the loop is over, the single extraction
ScrollExtract ==
    /\ apc = "loop"
    /\ pagination.type = "infinite_scroll"
    /\ ~InRange(step_no, pagination.budget)
    /\ FinalExtract
    /\ UNCHANGED <<pagination, step_no, cards, shown, idle_rounds,
                   page_closed>>
    /\ UNCHANGED <<crawlVars, masterVars, enrichVars, validatorVars,
                   detectorVars, lateVars>>

\* _handle_load_more, one click that succeeds: the page appends a card or
\* nothing
LoadMoreClick ==
    /\ apc = "loop"
    /\ pagination.type = "load_more_button"
    /\ InRange(step_no, pagination.budget)
    /\ ~page_closed
    /\ \E content \in {"new", "nothing"} :
          /\ cards' = IF content = "new" THEN cards \cup {NextName(cards)}
                      ELSE cards
          /\ idle_rounds' = IF content = "new" THEN 0 ELSE idle_rounds + 1
    /\ shown' = shown \cup cards
    /\ step_no' = step_no + 1
    /\ UNCHANGED <<pagination, apc, adapter_leads, extracts, page_closed>>
    /\ UNCHANGED <<crawlVars, masterVars, enrichVars, validatorVars,
                   detectorVars, lateVars>>

\* _handle_load_more without its try: a failing click leaves the handler
LoadMoreEndsUncaught ==
    /\ apc = "loop"
    /\ pagination.type = "load_more_button"
    /\ \/ FinalExtract
       \/ apc' = "raised" /\ UNCHANGED <<adapter_leads, extracts>>
    /\ UNCHANGED <<pagination, step_no, cards, shown, idle_rounds,
                   page_closed>>
    /\ UNCHANGED <<crawlVars, masterVars, enrichVars, validatorVars,
                   detectorVars, lateVars>>

\* _handle_load_more ends: the button is missing or invisible (break), a
\* call in the try block raised (except: break), or the click budget is used
\* up; then the single extraction
LoadMoreEnds ==
    /\ apc = "loop"
    /\ pagination.type = "load_more_button"
    /\ FinalExtract
    /\ UNCHANGED <<pagination, step_no, cards, shown, idle_rounds,
                   page_closed>>
    /\ UNCHANGED <<crawlVars, masterVars, enrichVars, validatorVars,
                   detectorVars, lateVars>>

\* _handle_numbered_pages, one iteration: extraction of the current page,
\* then the click on "next" loads the next page
NextPage ==
    /\ apc = "loop"
    /\ pagination.type = "numbered_pages"
    /\ InRange(step_no, pagination.budget)
    /\ ~page_closed
    /\ adapter_leads' = ExtractFromPage(adapter_leads, cards)
    /\ extracts' = extracts + 1
    /\ \E content \in {"new", "nothing"} :
          cards' = IF content = "new"
                   THEN {NextName(shown \cup cards)} ELSE {}
    /\ shown' = shown \cup cards
    /\ idle_rounds' = IF cards' = {} THEN idle_rounds + 1 ELSE 0
    /\ step_no' = step_no + 1
    /\ UNCHANGED <<pagination, apc, page_closed>>
    /\ UNCHANGED <<crawlVars, masterVars, enrichVars, validatorVars,
                   detectorVars, lateVars>>

\* _handle_numbered_pages, last iteration: extraction of the current page,
\* then the "next" control is missing or invisible (break) or the click or
\* the wait for the load raises (except: break)
LastPage ==
    /\ apc = "loop"
    /\ pagination.type = "numbered_pages"
    /\ InRange(step_no, pagination.budget)
    /\ ~page_closed
    /\ adapter_leads' = ExtractFromPage(adapter_leads, cards)
    /\ extracts' = extracts + 1
    /\ apc' = "done"
    /\ UNCHANGED <<pagination, step_no, cards, shown, idle_rounds,
                   page_closed>>
    /\ UNCHANGED <<crawlVars, masterVars, enrichVars, validatorVars,
                   detectorVars, lateVars>>

\* _handle_numbered_pages: the page budget is used up, the loop ends; or
\* the extraction at the top of an iteration raises because the page is gone
PagesEnd ==
    /\ apc = "loop"
    /\ pagination.type = "numbered_pages"
    /\ \/ ~InRange(step_no, pagination.budget) /\ apc' = "done"
       \/ InRange(step_no, pagination.budget) /\ page_closed
          /\ apc' = "raised"
    /\ UNCHANGED <<pagination, step_no, cards, adapter_leads, extracts, shown,
                   idle_rounds, page_closed>>
    /\ UNCHANGED <<crawlVars, masterVars, enrichVars, validatorVars,
                   detectorVars, lateVars>>

AdapterNext ==
    \/ PageCloses
    \/ ScrollRound
    \/ ScrollRaises
    \/ ScrollExtract
    \/ LoadMoreClick
    \/ LoadMoreEnds
    \/ NextPage
    \/ LastPage
    \/ PagesEnd

SpecAdapter == AdapterInit /\ [][AdapterNext]_vars

\* the event loop keeps running the handler: every await returns or raises
FairAdapter ==
    /\ SpecAdapter
    /\ WF_vars(ScrollRound \/ ScrollRaises \/ ScrollExtract \/ LoadMoreClick
               \/ LoadMoreEnds \/ NextPage \/ LastPage \/ PagesEnd)

(***************************************************************************)
(* Properties of the pagination.                                           *)
(***************************************************************************)
\* C12: infinite-scroll pagination with scroll budget N and stale-round
\* threshold K ends after at most N scroll rounds, whatever the page does,
\* also when every round brings content that only repeats known leads.
C12_ScrollEndsWithinBudget ==
    /\ [](pagination.type = "infinite_scroll"
             => step_no <= pagination.budget)
    /\ (pagination.type = "infinite_scroll") ~> (apc # "loop")

\* the scroll has ended after the whole budget, the page having shown only
\* the lead it showed at the start
C12_Witness ==
    /\ pagination.type = "infinite_scroll"
    /\ apc = "done"
    /\ pagination.budget >= 2
    /\ step_no = pagination.budget
    /\ idle_rounds = 0
    /\ adapter_leads = {1}

\* C13: infinite-scroll pagination stops before its scroll budget is used
\* up as soon as no new content has appeared for the configured number of
\* consecutive rounds: after that many idle rounds no further round is run.
C13_StopsWhenStale ==
    [][(/\ pagination.type = "infinite_scroll"
        /\ apc = "loop"
        /\ idle_rounds >= pagination.stale_rounds)
           => step_no' = step_no]_vars

\* C14: in every pagination strategy extraction is invoked during the
\* pagination, so that when the pagination has ended, also by a failure, the
\* leads that were visible before its last completed step are in the
\* adapter's lead list.
C14_PartialResultsKept ==
    apc \in {"done", "raised"} => shown \subseteq adapter_leads

(***************************************************************************)
(* -------------------------  THE SMTP VERIFIER  ------------------------- *)
(***************************************************************************)
MaxEmails == 2      \* addresses handed to verify_smtp_batch
Concurrency == 2    \* parameter concurrency of verify_smtp_batch
MaxTime == 2        \* tenths of a second the clock runs during a batch
MinGap == 2         \* the 0.2 s gap per MX host, in tenths of a second

\* the addresses of the batch, by position: the first two are on x.vc, the
\* others on y.vc
Addresses == 1..MaxEmails

MailDomains == {"x.vc", "y.vc"}

DomainOf(w) == IF w <= 2 THEN "x.vc" ELSE "y.vc"

\* the best MX host DNS names for a domain
HostOf(d) == IF d = "x.vc" THEN "mx1" ELSE "mx2"

Hosts == {HostOf(d) : d \in MailDomains}

\* mx_key = mx_host or domain
MxKeys == Hosts \cup MailDomains

\* what _resolve_mx_host_sync can return: the host, or None when the
\* domain has no MX or the lookup fails
MxAnswers(d) == {HostOf(d), ""}

\* the mail server of the domain accepts every recipient (that of x.vc
\* may, that of y.vc does not)
AcceptsAll(d) == d \in catch_all_domains

\* what _smtp_check can return for a real address: the RCPT code, 0 when
\* the server disconnects or rejects the greeting, -1 on a timeout or a
\* refused connection
RcptCodes(d) == IF AcceptsAll(d) THEN {250, -1} ELSE {250, 550, 0, -1}

\* how the conversation of _catch_all_check can end
ProbeOutcomes(d) ==
    {IF AcceptsAll(d) THEN "accepted" ELSE "rejected", "timeout"}

\* no result yet
NoResult == [deliverable |-> "unset", smtp_code |-> 0, catch_all |-> FALSE]

\* result as verify_smtp initialises it: deliverable None
Indeterminate == [deliverable |-> "none", smtp_code |-> 0, catch_all |-> FALSE]

\* verify_smtp: the verdict for an RCPT code
SmtpVerdict(code) ==
    [deliverable |-> IF code = 250 THEN "true"
                     ELSE IF code \in {550, 551, 552, 553} THEN "false"
                     ELSE "none",
     smtp_code |-> code,
     catch_all |-> FALSE]

\* _catch_all_check: code == 250, and False when the conversation raises
CatchAllAnswer(outcome) == outcome = "accepted"

\* verify_smtp: the self-test already determined that SMTP is blocked
BlockedNever(available) == FALSE

Blocked(available) == available = "no"

\* the status the engine gives a lead for its SMTP result
EmailStatus(res, old) ==
    IF res.deliverable = "true"
    THEN IF res.catch_all THEN "catch_all" ELSE "verified"
    ELSE IF res.deliverable = "false" THEN "undeliverable"
    ELSE old

\* the _check_one coroutines inside `async with sem`
SemHolders ==
    {w \in Addresses : check_pc[w] \in {"resolve", "gate", "sleep", "rcpt", "probe"}}

\* the SMTP conversations in progress
Conversations ==
    {w \in DOMAIN check_pc : check_pc[w] \in {"rcpt", "probe"}}

\* a new EmailValidator, and the addresses of the leads that have one
SmtpInit ==
    /\ CrawlIdle
    /\ MasterIdle
    /\ EnrichIdle
    /\ AdapterIdle
    /\ DetectorIdle
    /\ LateIdle
    /\ smtp_available = "untested"
    /\ verdict_cache = [w \in Addresses |-> NoResult]
    /\ mx_host_cache = [d \in MailDomains |-> "unset"]
    /\ catch_all_cache = [d \in MailDomains |-> "unset"]
    /\ vpc = "idle"
    /\ check_pc = [w \in Addresses |-> "new"]
    /\ mx_key = [w \in Addresses |-> ""]
    /\ connect_host = [w \in Addresses |-> ""]
    /\ lock_holder = 0
    /\ wake_at = 0
    /\ mx_last_check = [k \in MxKeys |-> 0]
    /\ clock = MinGap
    /\ returned_verdict = [w \in Addresses |-> NoResult]
    /\ lead_status = [w \in Addresses |-> "guessed"]
    /\ conn_count = 0
    /\ last_conv = [h \in Hosts |-> 0]
    /\ gap_broken = FALSE
    /\ lookups = [d \in MailDomains |-> 0]
    /\ ca_probes = [d \in MailDomains |-> 0]
    /\ probe_accepted = {}
    /\ last_net = NoCall
    /\ catch_all_domains \in SUBSET {"x.vc"}

\* what is remembered of a network call op of worker w for domain d
NetCall(op, w, d, outcome) ==
    IF outcome = "timeout"
    THEN [op |-> op, who |-> w, key |-> d, outcome |-> outcome]
    ELSE NoCall

\* a thread of the executor opens an SMTP connection to host
Opens(host) ==
    /\ conn_count' = conn_count + 1
    /\ gap_broken' = (gap_broken \/ clock - last_conv[host] < MinGap)
    /\ last_conv' = [last_conv EXCEPT ![host] = clock]

\* verify_smtp returns res for address w
Return(w, res) ==
    /\ returned_verdict' = [returned_verdict EXCEPT ![w] = res]
    /\ check_pc' = [check_pc EXCEPT ![w] = "done"]

\* smtp_self_test, first call: the handshake with the test host
SelfTest ==
    /\ vpc = "idle"
    /\ smtp_available = "untested"
    /\ \E ok \in BOOLEAN :
          smtp_available' = IF ok THEN "yes" ELSE "no"
    /\ conn_count' = conn_count + 1
    /\ UNCHANGED <<verdict_cache, mx_host_cache, catch_all_cache, vpc,
                   check_pc, mx_key, connect_host, lock_holder, wake_at,
                   mx_last_check, clock, returned_verdict, lead_status,
                   last_conv, gap_broken, lookups, ca_probes,
                   probe_accepted, last_net>>
    /\ UNCHANGED <<crawlVars, masterVars, enrichVars, adapterVars,
                   detectorVars, catch_all_domains, lateVars>>

\* verify_smtp_batch when the self-test failed: every address gets the
\* indeterminate result, and the engine leaves every status as it is
BatchBlocked ==
    /\ vpc = "idle"
    /\ smtp_available = "no"
    /\ returned_verdict' = [w \in Addresses |-> Indeterminate]
    /\ lead_status' = [w \in Addresses |->
                          EmailStatus(Indeterminate, lead_status[w])]
    /\ vpc' = "returned"
    /\ UNCHANGED <<smtp_available, verdict_cache, mx_host_cache,
                   catch_all_cache, check_pc, mx_key, connect_host,
                   lock_holder, wake_at, mx_last_check, clock, conn_count,
                   last_conv, gap_broken, lookups, ca_probes,
                   probe_accepted, last_net>>
    /\ UNCHANGED <<crawlVars, masterVars, enrichVars, adapterVars,
                   detectorVars, catch_all_domains, lateVars>>

\* verify_smtp_batch when the self-test passed: one _check_one per address
BatchStart ==
    /\ vpc = "idle"
    /\ smtp_available = "yes"
    /\ vpc' = "workers"
    /\ check_pc' = [w \in Addresses |-> "wait_sem"]
    /\ UNCHANGED <<smtp_available, verdict_cache, mx_host_cache,
                   catch_all_cache, mx_key, connect_host, lock_holder,
                   wake_at, mx_last_check, clock, returned_verdict,
                   lead_status, conn_count, last_conv, gap_broken, lookups,
                   ca_probes, probe_accepted, last_net>>
    /\ UNCHANGED <<crawlVars, masterVars, enrichVars, adapterVars,
                   detectorVars, catch_all_domains, lateVars>>

\* _check_one enters the semaphore and calls _resolve_mx_host: a cached
\* host is returned at once, otherwise the lookup starts in the executor
AcquireSem(w) ==
    /\ vpc = "workers"
    /\ check_pc[w] = "wait_sem"
    /\ Cardinality(SemHolders) < Concurrency
    /\ LET d == DomainOf(w) IN
       IF mx_host_cache[d] # "unset"
       THEN /\ mx_key' = [mx_key EXCEPT ![w] =
                            IF mx_host_cache[d] # "" THEN mx_host_cache[d]
                            ELSE d]
            /\ check_pc' = [check_pc EXCEPT ![w] = "gate"]
            /\ UNCHANGED lookups
       ELSE /\ lookups' = [lookups EXCEPT ![d] = @ + 1]
            /\ check_pc' = [check_pc EXCEPT ![w] = "resolve"]
            /\ UNCHANGED mx_key
    /\ UNCHANGED <<smtp_available, verdict_cache, mx_host_cache,
                   catch_all_cache, vpc, connect_host, lock_holder, wake_at,
                   mx_last_check, clock, returned_verdict, lead_status,
                   conn_count, last_conv, gap_broken, ca_probes,
                   probe_accepted, last_net>>
    /\ UNCHANGED <<crawlVars, masterVars, enrichVars, adapterVars,
                   detectorVars, catch_all_domains, lateVars>>

\* the lookup of _resolve_mx_host returns: the answer is stored and becomes
\* the mx_key of this _check_one
MxResolved(w) ==
    /\ check_pc[w] = "resolve"
    /\ \E host \in MxAnswers(DomainOf(w)) :
          /\ mx_host_cache' = [mx_host_cache EXCEPT ![DomainOf(w)] = host]
          /\ mx_key' = [mx_key EXCEPT ![w] =
                          IF host # "" THEN host ELSE DomainOf(w)]
          /\ last_net' = NetCall("mx", w, DomainOf(w),
                                  IF host = "" THEN "timeout" ELSE "answer")
    /\ check_pc' = [check_pc EXCEPT ![w] = "gate"]
    /\ UNCHANGED <<smtp_available, verdict_cache, catch_all_cache, vpc,
                   connect_host, lock_holder, wake_at, mx_last_check, clock,
                   returned_verdict, lead_status, conn_count, last_conv,
                   gap_broken, lookups, ca_probes, probe_accepted>>
    /\ UNCHANGED <<crawlVars, masterVars, enrichVars, adapterVars,
                   detectorVars, catch_all_domains, lateVars>>

\* _check_one takes the lock and computes how long it has to wait
AcquireLock(w) ==
    /\ check_pc[w] = "gate"
    /\ lock_holder = 0
    /\ lock_holder' = w
    /\ LET wait == MinGap - (clock - mx_last_check[mx_key[w]]) IN
       wake_at' = IF wait > 0 THEN clock + wait ELSE clock
    /\ check_pc' = [check_pc EXCEPT ![w] = "sleep"]
    /\ UNCHANGED <<smtp_available, verdict_cache, mx_host_cache,
                   catch_all_cache, vpc, mx_key, connect_host,
                   mx_last_check, clock, returned_verdict, lead_status,
                   conn_count, last_conv, gap_broken, lookups, ca_probes,
                   probe_accepted, last_net>>
    /\ UNCHANGED <<crawlVars, masterVars, enrichVars, adapterVars,
                   detectorVars, catch_all_domains, lateVars>>

\* verify_smtp up to its first await for an address with an "@": the cached
\* result; the indeterminate result when SMTP is blocked; the indeterminate
\* result when the domain has no MX host; otherwise _smtp_check starts in
\* the executor.  (_resolve_mx_host answers from its cache whenever
\* _check_one has resolved the domain before.)
VerifyEntry(w) ==
    LET d == DomainOf(w) IN
    IF verdict_cache[w] # NoResult
    THEN /\ Return(w, verdict_cache[w])
         /\ UNCHANGED <<verdict_cache, mx_host_cache, connect_host,
                        conn_count, last_conv, gap_broken, lookups>>
    ELSE IF Blocked(smtp_available)
    THEN /\ verdict_cache' = [verdict_cache EXCEPT ![w] = Indeterminate]
         /\ Return(w, Indeterminate)
         /\ UNCHANGED <<mx_host_cache, connect_host, conn_count, last_conv,
                        gap_broken, lookups>>
    ELSE \E host \in (IF mx_host_cache[d] = "unset" THEN MxAnswers(d)
                      ELSE {mx_host_cache[d]}) :
            /\ mx_host_cache' = [mx_host_cache EXCEPT ![d] = host]
            /\ lookups' = IF mx_host_cache[d] = "unset"
                          THEN [lookups EXCEPT ![d] = @ + 1]
                          ELSE lookups
            /\ IF host = ""
               THEN /\ verdict_cache' =
                           [verdict_cache EXCEPT ![w] = Indeterminate]
                    /\ Return(w, Indeterminate)
                    /\ UNCHANGED <<connect_host, conn_count, last_conv,
                                   gap_broken>>
               ELSE /\ connect_host' = [connect_host EXCEPT ![w] = host]
                    /\ check_pc' = [check_pc EXCEPT ![w] = "rcpt"]
                    /\ Opens(host)
                    /\ UNCHANGED <<verdict_cache, returned_verdict>>

\* _check_one has slept, stamps mx_last_check, releases the lock and calls
\* verify_smtp, which runs to its first await without yielding
GatePass(w) ==
    /\ check_pc[w] = "sleep"
    /\ lock_holder = w
    /\ clock >= wake_at
    /\ mx_last_check' = [mx_last_check EXCEPT ![mx_key[w]] = clock]
    /\ lock_holder' = 0
    /\ VerifyEntry(w)
    /\ UNCHANGED <<smtp_available, catch_all_cache, vpc, mx_key, wake_at,
                   clock, lead_status, ca_probes, probe_accepted, last_net>>
    /\ UNCHANGED <<crawlVars, masterVars, enrichVars, adapterVars,
                   detectorVars, catch_all_domains, lateVars>>

\* _smtp_check returns its code: the verdict, and after a 250 the cached
\* catch-all flag of the domain, or _catch_all_check starts in the executor
RcptDone(w) ==
    /\ check_pc[w] = "rcpt"
    /\ \E code \in RcptCodes(DomainOf(w)) :
          LET d == DomainOf(w) IN
          /\ last_net' = NetCall("rcpt", w, d,
                                  IF code = -1 THEN "timeout" ELSE "answer")
          /\ IF code = 250 /\ catch_all_cache[d] = "unset"
             THEN /\ check_pc' = [check_pc EXCEPT ![w] = "probe"]
                  /\ ca_probes' = [ca_probes EXCEPT ![d] = @ + 1]
                  /\ Opens(connect_host[w])
                  /\ UNCHANGED <<verdict_cache, returned_verdict>>
             ELSE LET res == [SmtpVerdict(code) EXCEPT !.catch_all =
                                 (code = 250 /\ catch_all_cache[d] = "true")]
                  IN  /\ verdict_cache' = [verdict_cache EXCEPT ![w] = res]
                      /\ Return(w, res)
                      /\ UNCHANGED <<ca_probes, conn_count, last_conv,
                                     gap_broken>>
    /\ UNCHANGED <<smtp_available, mx_host_cache, catch_all_cache, vpc,
                   mx_key, connect_host, lock_holder, wake_at, mx_last_check,
                   clock, lead_status, lookups, probe_accepted>>
    /\ UNCHANGED <<crawlVars, masterVars, enrichVars, adapterVars,
                   detectorVars, catch_all_domains, lateVars>>

\* _catch_all_check returns: the flag is stored for the domain and the
\* result of the address is cached and returned
ProbeDone(w) ==
    /\ check_pc[w] = "probe"
    /\ \E outcome \in ProbeOutcomes(DomainOf(w)) :
          LET d == DomainOf(w)
              is_catch_all == CatchAllAnswer(outcome)
              res == [SmtpVerdict(250) EXCEPT !.catch_all = is_catch_all]
          IN  /\ catch_all_cache' = [catch_all_cache EXCEPT ![d] =
                                        IF is_catch_all THEN "true"
                                        ELSE "false"]
              /\ probe_accepted' = IF outcome = "accepted"
                                   THEN probe_accepted \cup {d}
                                   ELSE probe_accepted
              /\ verdict_cache' = [verdict_cache EXCEPT ![w] = res]
              /\ Return(w, res)
              /\ last_net' = NetCall("catch_all", w, d, outcome)
    /\ UNCHANGED <<smtp_available, mx_host_cache, vpc, mx_key, connect_host,
                   lock_holder, wake_at, mx_last_check, clock, lead_status,
                   conn_count, last_conv, gap_broken, lookups, ca_probes>>
    /\ UNCHANGED <<crawlVars, masterVars, enrichVars, adapterVars,
                   detectorVars, catch_all_domains, lateVars>>

\* gather is over: verify_smtp_batch returns and the engine sets the
\* email_status of every candidate lead
BatchReturn ==
    /\ vpc = "workers"
    /\ \A w \in Addresses : check_pc[w] = "done"
    /\ vpc' = "returned"
    /\ lead_status' = [w \in Addresses |->
                          EmailStatus(returned_verdict[w], lead_status[w])]
    /\ UNCHANGED <<smtp_available, verdict_cache, mx_host_cache,
                   catch_all_cache, check_pc, mx_key, connect_host,
                   lock_holder, wake_at, mx_last_check, clock,
                   returned_verdict, conn_count, last_conv, gap_broken,
                   lookups, ca_probes, probe_accepted, last_net>>
    /\ UNCHANGED <<crawlVars, masterVars, enrichVars, adapterVars,
                   detectorVars, catch_all_domains, lateVars>>

\* a tenth of a second passes while the batch runs
Tick ==
    /\ vpc = "workers"
    /\ clock < MinGap + MaxTime
    /\ clock' = clock + 1
    /\ UNCHANGED <<smtp_available, verdict_cache, mx_host_cache,
                   catch_all_cache, vpc, check_pc, mx_key, connect_host,
                   lock_holder, wake_at, mx_last_check, returned_verdict,
                   lead_status, conn_count, last_conv, gap_broken, lookups,
                   ca_probes, probe_accepted, last_net>>
    /\ UNCHANGED <<crawlVars, masterVars, enrichVars, adapterVars,
                   detectorVars, catch_all_domains, lateVars>>

\* a later verify_smtp call on an address, after the batch has returned
DirectCall(w) ==
    /\ vpc = "returned"
    /\ check_pc[w] \in {"new", "done"}
    /\ VerifyEntry(w)
    /\ UNCHANGED <<smtp_available, catch_all_cache, vpc, mx_key, lock_holder,
                   wake_at, mx_last_check, clock, lead_status, ca_probes,
                   probe_accepted, last_net>>
    /\ UNCHANGED <<crawlVars, masterVars, enrichVars, adapterVars,
                   detectorVars, catch_all_domains, lateVars>>

SmtpNext ==
    \/ SelfTest
    \/ BatchBlocked
    \/ BatchStart
    \/ \E w \in Addresses : AcquireSem(w)
    \/ \E w \in Addresses : MxResolved(w)
    \/ \E w \in Addresses : AcquireLock(w)
    \/ \E w \in Addresses : GatePass(w)
    \/ \E w \in Addresses : RcptDone(w)
    \/ \E w \in Addresses : ProbeDone(w)
    \/ BatchReturn
    \/ Tick
    \/ \E w \in Addresses : DirectCall(w)

SpecSmtp == SmtpInit /\ [][SmtpNext]_vars

C16_TimeoutIsUnknown ==
    last_net.outcome = "timeout" =>
        /\ last_net.op = "rcpt" =>
              verdict_cache[last_net.who].deliverable = "none"
        /\ last_net.op = "catch_all" =>
              catch_all_cache[last_net.key] # "false"

\* C17: when the batch has returned, every address found deliverable on a
\* domain whose server accepted a random local part is tagged catch_all,
\* never verified.
C17_CatchAllDowngraded ==
    vpc = "returned" =>
        \A w \in Addresses :
            (returned_verdict[w].deliverable = "true"
             /\ DomainOf(w) \in probe_accepted)
                => lead_status[w] = "catch_all"

\* C18: no two SMTP conversations to the same mail-exchange host ever
\* start less than the minimum gap apart.
C18_MinGapPerHost == gap_broken = FALSE

\* C19: for every domain the MX-host resolution and the catch-all probe
\* are each started at most once.
C19_ProbeOncePerDomain ==
    \A d \in MailDomains : lookups[d] <= 1 /\ ca_probes[d] <= 1

(***************************************************************************)
(* ---------------  CATCH-ALL DETECTION OF THE DETECTOR  ----------------- *)
(***************************************************************************)
MaxDomains == 3     \* domains of the leads without an e-mail

\* domain_list of enrich_batch, by position
DomainList == 1..MaxDomains

\* the _check_catch_all coroutines whose SMTP conversation is in progress
Probing == {k \in DOMAIN det_pc : det_pc[k] = "smtp"}

\* a new CatchAllDetector; enrich_batch has created one _check_catch_all per
\* domain and awaits gather
DetectorInit ==
    /\ CrawlIdle
    /\ MasterIdle
    /\ EnrichIdle
    /\ AdapterIdle
    /\ ValidatorIdle
    /\ LateIdle
    /\ det_pc = [k \in DomainList |-> "start"]
    /\ det_mx_cache = [k \in DomainList |-> "unset"]
    /\ det_catchall_cache = [k \in DomainList |-> "unset"]
    /\ det_net = NoCall

\* _check_catch_all starts: the cached flag, or _get_mx_records, which
\* answers from its cache or awaits the resolver
CheckStart(k) ==
    /\ det_pc[k] = "start"
    /\ det_pc' = [det_pc EXCEPT ![k] =
                     IF det_catchall_cache[k] # "unset" THEN "done"
                     ELSE IF det_mx_cache[k] = "unset" THEN "mx"
                     ELSE IF det_mx_cache[k] = "empty" THEN "done"
                     ELSE "smtp"]
    /\ det_catchall_cache' =
          IF det_catchall_cache[k] = "unset" /\ det_mx_cache[k] = "empty"
          THEN [det_catchall_cache EXCEPT ![k] = "false"]
          ELSE det_catchall_cache
    /\ UNCHANGED <<det_mx_cache, det_net>>
    /\ UNCHANGED <<crawlVars, masterVars, enrichVars, adapterVars,
                   validatorVars, lateVars>>

\* the resolver answers or raises: the MX list is cached, empty after any
\* exception; without MX the domain is cached as not catch-all, otherwise
\* the SMTP conversation with the first MX host starts
MxAnswered(k) ==
    /\ det_pc[k] = "mx"
    /\ \E answer \in {"hosts", "no_mx", "timeout"} :
          /\ det_mx_cache' = [det_mx_cache EXCEPT ![k] =
                                 IF answer = "hosts" THEN "hosts"
                                 ELSE "empty"]
          /\ det_net' = NetCall("mx", k, "", answer)
          /\ IF answer = "hosts"
             THEN /\ det_pc' = [det_pc EXCEPT ![k] = "smtp"]
                  /\ UNCHANGED det_catchall_cache
             ELSE /\ det_pc' = [det_pc EXCEPT ![k] = "done"]
                  /\ det_catchall_cache' =
                        [det_catchall_cache EXCEPT ![k] = "false"]
    /\ UNCHANGED <<crawlVars, masterVars, enrichVars, adapterVars,
                   validatorVars, lateVars>>

\* the conversation ends: code == 250 is cached, and False after any
\* exception
ConversationEnds(k) ==
    /\ det_pc[k] = "smtp"
    /\ \E outcome \in {"accepted", "rejected", "timeout"} :
          /\ det_catchall_cache' = [det_catchall_cache EXCEPT ![k] =
                                       IF outcome = "accepted" THEN "true"
                                       ELSE "false"]
          /\ det_net' = NetCall("catch_all", k, "", outcome)
    /\ det_pc' = [det_pc EXCEPT ![k] = "done"]
    /\ UNCHANGED det_mx_cache
    /\ UNCHANGED <<crawlVars, masterVars, enrichVars, adapterVars,
                   validatorVars, lateVars>>

DetectorNext ==
    \/ \E k \in DomainList : CheckStart(k)
    \/ \E k \in DomainList : MxAnswered(k)
    \/ \E k \in DomainList : ConversationEnds(k)

SpecDetector == DetectorInit /\ [][DetectorNext]_vars

\* C20: at any moment the SMTP conversations in flight, those of the batch
\* verification and those of the catch-all detection, are no more than the
\* limit configured for SMTP connections.
C20_InFlightWithinLimit ==
    Cardinality(Conversations) + Cardinality(Probing) <= Concurrency

(***************************************************************************)
(* ------------------  FRESHNESS OF THE CRAWL TARGETS  ------------------- *)
(***************************************************************************)
MaxDay == 4         \* the days on which the crawler may run
StaleDays == 2      \* DeepCrawler.stale_days, the freshness window in days

FreshDomains == {"a.vc", "b.vc"}

\* what data/target_funds.txt may list
TargetFiles == {<<"a.vc">>, <<"b.vc">>, <<"a.vc", "b.vc">>}

\* seen_domains.txt is not older than stale_days
Recent(mtime, now) == ~(now - mtime > StaleDays)

\* the domain's own latest crawl lies within the freshness window
CrawledWithinWindow(days, d, now) ==
    days[d] # 0 /\ ~(now - days[d] > StaleDays)

\* day 1, before the first run: no seen_domains.txt
FreshInit ==
    /\ CrawlIdle
    /\ MasterIdle
    /\ EnrichIdle
    /\ AdapterIdle
    /\ ValidatorIdle
    /\ DetectorIdle
    /\ MergeIdle
    /\ TailIdle
    /\ fresh_day = 1
    /\ seen_txt = [lines |-> {}, mtime |-> 0]
    /\ crawl_day = [d \in FreshDomains |-> 0]
    /\ loaded = [on |-> 1, file |-> <<>>, targets |-> <<>>,
                 before |-> crawl_day]

\* a day passes between two runs
DayPasses ==
    /\ fresh_day < MaxDay
    /\ fresh_day' = fresh_day + 1
    /\ UNCHANGED <<seen_txt, crawl_day, loaded>>
    /\ UNCHANGED <<crawlVars, masterVars, enrichVars, adapterVars,
                   validatorVars, detectorVars, mergeVars, tailVars>>

\* DeepCrawler.run without --force-recrawl: _load_targets, the crawl of every
\* target it returned, and _save_seen(targets), which rewrites the file
CrawlerRun ==
    \E file \in TargetFiles :
        LET chosen == LoadTargets(file, seen_txt.lines,
                                  Recent(seen_txt.mtime, fresh_day), FALSE)
        IN  /\ loaded' = [on |-> fresh_day, file |-> file,
                          targets |-> chosen, before |-> crawl_day]
            /\ crawl_day' = [d \in FreshDomains |->
                                IF d \in Range(chosen) THEN fresh_day
                                ELSE crawl_day[d]]
            /\ seen_txt' = [lines |-> SaveSeen(seen_txt.lines, chosen),
                            mtime |-> fresh_day]
            /\ UNCHANGED fresh_day
            /\ UNCHANGED <<crawlVars, masterVars, enrichVars, adapterVars,
                           validatorVars, detectorVars, mergeVars, tailVars>>

FreshNext == DayPasses \/ CrawlerRun

SpecFresh == FreshInit /\ [][FreshNext]_vars

\* C21: the latest _load_targets left a domain of the target file out
\* exactly when the domain's own latest crawl was within the freshness
\* window; a domain never crawled, or crawled longer ago, was selected.
C21_FilteredIffOwnCrawlFresh ==
    \A d \in Range(loaded.file) :
        (d \notin Range(loaded.targets))
            <=> CrawledWithinWindow(loaded.before, d, loaded.on)

(***************************************************************************)
(* ----------------------  BUILDING THE LEAD POOL  ----------------------- *)
(***************************************************************************)
MaxSource == 2      \* contacts one source or one deep crawl hands over

MergeNames == {"Jane Smith", "JANE SMITH", "Bob Jones", "Unknown"}

MergeFunds == {"Acme Capital", "Beta Fund"}

\* a contact, as far as the pool looks at it
MergeContacts == [name : MergeNames, fund : MergeFunds]

\* the lists a source can hand over
SourceLists ==
    UNION {[1..n -> MergeContacts] : n \in 1..MaxSource}

\* the lower-cased names of the pool: _seen_names, existing_names
SeenNames(leads) == {Lower(leads[i].name) : i \in 1..Len(leads)}

RECURSIVE AddNew(_, _, _, _)
\* the loop of _dedup_add and of the merge of _run_deep_crawl over
\* leads[i..]: a lead is appended when its lower-cased name is not empty,
\* is not in the pool yet and, in the merge, is not "unknown"
AddNew(leads, i, into, skip_unknown) ==
    IF i > Len(leads) THEN into
    ELSE LET key == Lower(leads[i].name) IN
         IF /\ key # ""
            /\ key \notin SeenNames(into)
            /\ ~(skip_unknown /\ key = "unknown")
         THEN AddNew(leads, i + 1, Append(into, leads[i]), skip_unknown)
         ELSE AddNew(leads, i + 1, into, skip_unknown)

\* a new SourceAggregator
MergeInit ==
    /\ CrawlIdle
    /\ MasterIdle
    /\ EnrichIdle
    /\ AdapterIdle
    /\ ValidatorIdle
    /\ DetectorIdle
    /\ FreshIdle
    /\ TailIdle
    /\ pool = <<>>
    /\ offered = {}
    /\ merge_pc = "seed_db"

\* aggregate: _dedup_add of the seed database, then of the GitHub lists
DedupAdd ==
    /\ merge_pc \in {"seed_db", "github_lists"}
    /\ \E leads \in SourceLists :
          /\ pool' = AddNew(leads, 1, pool, FALSE)
          /\ offered' = offered \cup Range(leads)
    /\ merge_pc' = IF merge_pc = "seed_db" THEN "github_lists"
                   ELSE "deep_crawl"
    /\ UNCHANGED <<crawlVars, masterVars, enrichVars, adapterVars,
                   validatorVars, detectorVars, freshVars, tailVars>>

\* _run_deep_crawl merges crawler.all_contacts into the engine's leads
MergeDeepCrawl ==
    /\ merge_pc = "deep_crawl"
    /\ \E contacts \in SourceLists :
          /\ pool' = AddNew(contacts, 1, pool, TRUE)
          /\ offered' = offered \cup Range(contacts)
    /\ merge_pc' = "merged"
    /\ UNCHANGED <<crawlVars, masterVars, enrichVars, adapterVars,
                   validatorVars, detectorVars, freshVars, tailVars>>

MergeNext == DedupAdd \/ MergeDeepCrawl

SpecMerge == MergeInit /\ [][MergeNext]_vars

\* C22: every named contact handed to the pool is in it up to its
\* (lower-cased name, lower-cased organization) key: a contact is left out
\* only when the pool holds one with the same name and the same
\* organization, so the same name at two organizations is kept twice.
C22_SameOnlyIfNameAndFund ==
    \A c \in offered :
        Lower(c.name) # "unknown"
            => \E i \in 1..Len(pool) : DedupKey(pool[i]) = DedupKey(c)

(***************************************************************************)
(* ----------------  PATTERN PROPAGATION OF THE GUESSER  ----------------- *)
(***************************************************************************)
\* positions of the contacts of ls at domain d whose e-mail matches one of
\* the canonical patterns for their name
PatternSiblings(ls, d) ==
    {j \in 1..Len(ls) :
        /\ ~NoEmail(ls[j].email)
        /\ HasAt(ls[j].email)
        /\ extract_domain(ls[j].website) = d
        /\ detect_pattern(ls[j].email, ls[j].name) # None}

\* C23: if at least one contact at a domain already has an e-mail that
\* matches one of the canonical patterns, then after the guesser stage every
\* person-named contact at that domain that had no e-mail holds the e-mail
\* built by applying that pattern to their own name (first and last name,
\* without title), whatever the network answers.
C23_SiblingPatternPropagates ==
    [][epc = "guess"
         => \A i \in 1..Len(all_leads) :
               LET d == extract_domain(all_leads[i].website)
                   sib == PatternSiblings(all_leads, d)
               IN (/\ NoEmail(all_leads[i].email)
                   /\ is_person_name(all_leads[i].name)
                   /\ d # None
                   /\ sib # {})
                     => \E j \in sib :
                           all_leads'[i].email =
                               FormatName(
                                   detect_pattern(all_leads[j].email,
                                                  all_leads[j].name),
                                   clean_person_name(all_leads[i].name),
                                   d)]_vars

(***************************************************************************)
(* -----------------------  SCORING OF A LEAD  --------------------------- *)
(***************************************************************************)
\* int(x) for the float x = num / den: truncation toward zero
Trunc(num, den) ==
    IF num >= 0 THEN num \div den ELSE 0 - ((0 - num) \div den)

\* weight tables a scoring.yaml can hold: the default one, a heavier one and
\* one with negative weights
ScoreWeights ==
    {DefaultScorer.weights,
     [stage_match |-> 60, sector_match |-> 60, check_size_fit |-> 60],
     [stage_match |-> -30, sector_match |-> -25, check_size_fit |-> -20]}

\* modifier tables: the one of src/tests/test_fixes.py and a heavier one
ScoreModifiers ==
    {[has_email |-> 10, has_linkedin |-> 5, no_email |-> -15,
      stale_fund |-> -10],
     [has_email |-> 40, has_linkedin |-> 20, no_email |-> -90,
      stale_fund |-> -30]}

\* tier thresholds: the default ladder and a retuned one
ScoreTiers == {DefaultScorer.tiers, [hot |-> 50, warm |-> 30, cool |-> 10]}

Scorers ==
    [weights : ScoreWeights, modifiers : ScoreModifiers, tiers : ScoreTiers]

\* startup_profile of the scorer: stage "seed", three sectors, target check
\* size 50K to 500K
ProfileSectors == {"ai", "saas", "developer tools"}

TargetCheckSize == [min |-> 50000, max |-> 500000]

\* s.lower() for the sector names of the model
LowerSector(s) ==
    CASE s = "AI" -> "ai"
      [] s = "SaaS" -> "saas"
      [] OTHER -> s

\* the leads handed to LeadScorer.score: scraped_at is the age of the
\* discovery timestamp in days
ScoreInputs ==
    [stage : {"N/A", "Seed", "series-a"},
     focus_areas : {{}, {"AI"}, {"AI", "SaaS"}},
     check_size : {"N/A", "$100K - $500K", "$5M"},
     email : {"N/A", "jane@example.com"},
     linkedin : {"N/A", "https://linkedin.com/in/janesmith"},
     scraped_at : {0, 90}]

\* LeadScorer._score_stage for the profile stage "seed"
ScoreStage(weight, stage) ==
    CASE stage \in {"", "N/A"} -> weight \div 3
      [] stage \in {"Seed", "Pre-Seed"} -> weight
      [] stage \in {"pre-seed", "series-a"} -> Trunc(weight * 6, 10)
      [] stage = "series-b" -> Trunc(weight * 2, 10)
      [] stage = "Growth" -> 0
      [] OTHER -> weight \div 3

\* LeadScorer._score_sectors
ScoreSectors(weight, focus_areas) ==
    IF focus_areas = {} THEN weight \div 4
    ELSE LET theirs == {LowerSector(x) : x \in focus_areas}
             overlap == Cardinality(ProfileSectors \cap theirs)
             mine == Cardinality(ProfileSectors)
         IN IF 3 * overlap >= 2 * mine THEN weight
            ELSE Trunc(weight * 3 * overlap, 2 * mine)

\* the numbers re.findall reads in a check size
CheckAmounts(check_size) ==
    CASE check_size = "$100K - $500K" -> {100000, 500000}
      [] check_size = "$5M" -> {5000000}
      [] OTHER -> {}

\* LeadScorer._score_check_size
ScoreCheckSize(weight, check_size) ==
    IF check_size \in {"", "N/A"} \/ CheckAmounts(check_size) = {}
    THEN weight \div 3
    ELSE LET amounts == CheckAmounts(check_size)
         IN IF /\ \E a \in amounts : a <= TargetCheckSize.max
               /\ \E a \in amounts : a >= TargetCheckSize.min
            THEN weight
            ELSE Trunc(weight * 15, 100)

\* LeadScorer.score: total before the clamp
ScoreTotal(cfg, lead) ==
    ScoreStage(cfg.weights.stage_match, lead.stage)
    + ScoreSectors(cfg.weights.sector_match, lead.focus_areas)
    + ScoreCheckSize(cfg.weights.check_size_fit, lead.check_size)
    + (IF lead.email \notin {"", "N/A"} THEN cfg.modifiers.has_email
       ELSE cfg.modifiers.no_email)
    + (IF lead.linkedin \notin {"", "N/A"} THEN cfg.modifiers.has_linkedin
       ELSE 0)

get_tierHardcoded(tiers, total) ==
    IF total >= 80 THEN "HOT"
    ELSE IF total >= 60 THEN "WARM"
    ELSE IF total >= 40 THEN "COOL"
    ELSE "COLD"

\* LeadScorer._get_tier
get_tier(tiers, total) ==
    IF total >= tiers.hot THEN "HOT"
    ELSE IF total >= tiers.warm THEN "WARM"
    ELSE IF total >= tiers.cool THEN "COOL"
    ELSE "COLD"

\* LeadScorer.score: the pair (total, tier) it returns
LeadScore(cfg, lead) ==
    [lead |-> lead,
     total |-> Clamp(ScoreTotal(cfg, lead)),
     tier |-> get_tier(cfg.tiers, Clamp(ScoreTotal(cfg, lead)))]

ScoreInit ==
    /\ CrawlIdle
    /\ MasterIdle
    /\ EnrichIdle
    /\ AdapterIdle
    /\ ValidatorIdle
    /\ DetectorIdle
    /\ FreshIdle
    /\ MergeIdle
    /\ MatchIdle
    /\ GuessIdle
    /\ scorer \in Scorers
    /\ score_log = <<>>

\* one call of LeadScorer.score
ScoreCall ==
    /\ \E lead \in ScoreInputs :
          score_log' = <<LeadScore(scorer, lead)>>
    /\ UNCHANGED <<scorer, crawlVars, masterVars, enrichVars, adapterVars,
                   validatorVars, detectorVars, freshVars, mergeVars,
                   matchVars, guessVars>>

ScoreNext == ScoreCall

SpecScore == ScoreInit /\ [][ScoreNext]_vars

\* C24: for every contact and every scoring configuration (weights and
\* modifiers), the score produced is between 0 and 100 inclusive.
C24_ScoreWithinBounds ==
    \A k \in 1..Len(score_log) :
        score_log[k].total >= 0 /\ score_log[k].total <= 100

\* a lead whose dimensions and modifiers sum to more than 100 was scored
C24_Witness ==
    /\ score_log # <<>>
    /\ ScoreTotal(scorer, score_log[1].lead) > 100
    /\ score_log[1].total = 100

\* position of a tier on the ladder
TierRank(tier) ==
    CASE tier = "HOT" -> 3
      [] tier = "WARM" -> 2
      [] tier = "COOL" -> 1
      [] OTHER -> 0

\* is tier t the ladder's answer for score s under the thresholds of the
\* scorer
OnLadder(s, t) ==
    /\ t = "HOT" <=> s >= scorer.tiers.hot
    /\ t = "WARM" <=> s < scorer.tiers.hot /\ s >= scorer.tiers.warm
    /\ t = "COOL" <=> s < scorer.tiers.warm /\ s >= scorer.tiers.cool
    /\ (scorer.tiers.hot = 80 /\ s = 85) => t = "HOT"
    /\ (scorer.tiers.hot = 80 /\ scorer.tiers.warm = 60 /\ s = 65)
          => t = "WARM"

\* C25: the tier is a threshold ladder over the score that uses the
\* thresholds of the configuration (hot if score >= hot threshold, else warm
\* if >= warm threshold, else cool if >= cool threshold, else cold), so a
\* higher score never gets a lower tier; with thresholds hot 80 and warm 60,
\* score 85 is HOT and score 65 is WARM.  Stated over two successive calls
\* of the same scorer.
C25_TierLadderFromConfig ==
    [][/\ \A k \in 1..Len(score_log') :
             OnLadder(score_log'[k].total, score_log'[k].tier)
       /\ \A j \in 1..Len(score_log), k \in 1..Len(score_log') :
             /\ score_log[j].total >= score_log'[k].total
                   => TierRank(score_log[j].tier)
                          >= TierRank(score_log'[k].tier)
             /\ score_log[j].total <= score_log'[k].total
                   => TierRank(score_log[j].tier)
                          <= TierRank(score_log'[k].tier)]_vars

\* under retuned thresholds (hot 50) a score between 50 and 79 was tiered
\* HOT
C25_Witness ==
    /\ scorer.tiers.hot = 50
    /\ score_log # <<>>
    /\ score_log[1].total >= 50
    /\ score_log[1].total < 80
    /\ score_log[1].tier = "HOT"

\* C26: the score sums five dimensions (stage fit, sector overlap,
\* check-size overlap, recency decay, portfolio relevance) plus flat
\* modifiers that include a staleness penalty: a contact whose discovery
\* timestamp is older than the staleness window scores lower than an
\* otherwise identical freshly discovered contact, unless both scores sit
\* on the same end of the 0..100 clamp.
C26_StaleScoresLower ==
    [][\A j \in 1..Len(score_log), k \in 1..Len(score_log') :
          (/\ score_log[j].lead.scraped_at = 0
           /\ score_log'[k].lead = [score_log[j].lead EXCEPT !.scraped_at = 90]
           /\ ScoreTotal(scorer, score_log[j].lead) \in 1..100)
              => score_log'[k].total < score_log[j].total]_vars

(***************************************************************************)
(* -------  MATCHING OF FOUND ADDRESSES TO THE CONTACTS OF A FUND  ------- *)
(***************************************************************************)
MaxPages == 2          \* _extract_from_page calls per fund

\* names extract_name_role_pairs can find on the pages of the fund
PageNames == {"Jane Smith", "Bob Smith"}

\* the name-role pairs of one page
PageNameLists ==
    {s \in ListsUpTo(PageNames, 2) : \A i, j \in 1..Len(s) : i # j => s[i] # s[j]}

\* the InvestorLead _extract_from_page builds
PageContact(name, email) ==
    Lead(0, name, "Acme Capital", "https://acme.vc", email, "<unset>", "N/A", 0)

\* _extract_from_page: the contacts of a page that shows the names and the
\* addresses emails
extract_from_page(names, emails) ==
    IF names = <<>>
    THEN [k \in 1..Len(emails) |-> PageContact("Unknown", emails[k])]
    ELSE MatchPass([k \in 1..Len(names) |-> PageContact(names[k], NA)],
                   1..Len(names), 1, emails, "<unset>", TRUE).leads

RECURSIVE DedupByName(_, _, _)
\* _crawl_fund: "Dedup contacts by name (case-insensitive) before returning"
DedupByName(found, i, seen_names) ==
    IF i > Len(found) THEN <<>>
    ELSE IF Lower(found[i].name) \in seen_names
    THEN DedupByName(found, i + 1, seen_names)
    ELSE <<found[i]>>
         \o DedupByName(found, i + 1, seen_names \cup {Lower(found[i].name)})

MatchInit ==
    /\ CrawlIdle
    /\ MasterIdle
    /\ EnrichIdle
    /\ AdapterIdle
    /\ ValidatorIdle
    /\ DetectorIdle
    /\ FreshIdle
    /\ MergeIdle
    /\ ScoreIdle
    /\ GuessIdle
    /\ fund_found = <<>>
    /\ match_pool = <<>>
    /\ pages_seen = 0
    /\ mpc = "pages"

\* _crawl_fund: one _extract_from_page, of a team page, of the page after a
\* click on "Load More", or of a ?page=N link; its contacts extend found
ExtractPage ==
    /\ mpc = "pages"
    /\ pages_seen < MaxPages
    /\ \E names \in PageNameLists, emails \in FoundLists :
          /\ fund_found' = fund_found \o extract_from_page(names, emails)
          /\ match_pool' = emails
    /\ pages_seen' = pages_seen + 1
    /\ UNCHANGED <<mpc, crawlVars, masterVars, enrichVars, adapterVars,
                   validatorVars, detectorVars, freshVars, mergeVars,
                   scoreVars, guessVars>>

\* _crawl_fund: the pages are done, found is deduplicated and returned
ReturnFund ==
    /\ mpc = "pages"
    /\ fund_found' = Numbered(DedupByName(fund_found, 1, {}))
    /\ mpc' = "returned"
    /\ UNCHANGED <<match_pool, pages_seen, crawlVars, masterVars, enrichVars,
                   adapterVars, validatorVars, detectorVars, freshVars,
                   mergeVars, scoreVars, guessVars>>

\* DNSHarvester.enrich_batch on the contacts the crawl returned
HarvestFund ==
    /\ mpc = "returned"
    /\ \E found \in Found :
          /\ fund_found' = dns_harvest(fund_found, found)
          /\ match_pool' = found["acme.vc"]
    /\ mpc' = "harvested"
    /\ UNCHANGED <<pages_seen, crawlVars, masterVars, enrichVars, adapterVars,
                   validatorVars, detectorVars, freshVars, mergeVars,
                   scoreVars, guessVars>>

MatchNext == ExtractPage \/ ReturnFund \/ HarvestFund

SpecMatch == MatchInit /\ [][MatchNext]_vars

\* C27: when discovered e-mails are matched to contacts, each matched e-mail
\* is removed from the candidate pool, so that no e-mail address ends up
\* assigned to two contacts of the same fund, across all pages and
\* extraction passes of that fund.
C27_NoEmailOnTwoContacts ==
    mpc = "returned"
        => \A i, j \in 1..Len(fund_found) :
              (/\ i # j
               /\ ~NoEmail(fund_found[i].email)
               /\ fund_found[i].name # "Unknown"
               /\ fund_found[j].name # "Unknown")
                  => fund_found[i].email # fund_found[j].email

\* positions of the named contacts that the step gave an address
Assigned ==
    {i \in 1..Len(fund_found') :
        /\ fund_found'[i].name # "Unknown"
        /\ ~NoEmail(fund_found'[i].email)
        /\ i > Len(fund_found) \/ NoEmail(fund_found[i].email)}

\* the address of contact i scores at least the threshold for the contact's
\* name, and every address of the pool that scores higher went to another
\* contact in the same pass
BestAboveThreshold(i) ==
    LET e == fund_found'[i].email
        sc(x) == match_email_to_name(x, fund_found'[i].name)
    IN /\ sc(e) >= MatchThreshold
       /\ \A k \in 1..Len(match_pool') :
             sc(match_pool'[k]) > sc(e)
                 => \E j \in Assigned \ {i} :
                       fund_found'[j].email = match_pool'[k]

\* C28 as stated: a discovered e-mail is assigned to a contact only if it is
\* the highest-scoring candidate for that contact and its name-match score
\* is above the 0.3 threshold; an e-mail whose score for the contact is
\* below the threshold is never assigned to that contact.
C28_OnlyBestAboveThreshold ==
    [][mpc' # "returned" => \A i \in Assigned : BestAboveThreshold(i)]_vars

\* C28 as amended: the page extraction of the deep crawler and the
\* name-matching pass of the DNS harvester assign an e-mail to a named
\* contact only if it is the highest-scoring candidate left for that contact
\* and its score reaches the 0.3 threshold; the harvester's fallback pass
\* then hands the leftover addresses of the fund's own domain to contacts
\* that no address matched, whatever they score.
C28_BestAboveThresholdOrFallback ==
    [][mpc' # "returned"
         => \A i \in Assigned :
               \/ BestAboveThreshold(i)
               \/ /\ mpc' = "harvested"
                  /\ fund_found'[i].email.dom = SiteDomain(fund_found'[i].website)
                  /\ match_email_to_name(fund_found'[i].email,
                                         fund_found'[i].name) < MatchThreshold
                  /\ \A k \in 1..Len(match_pool') :
                        match_email_to_name(match_pool'[k],
                                            fund_found'[i].name) >= MatchThreshold
                            => \E j \in Assigned \ {i} :
                                  fund_found'[j].email = match_pool'[k]]_vars

\* a page showed two addresses that both match Bob Smith, and he holds the
\* one that scores higher
C28_Witness ==
    /\ mpc = "pages"
    /\ Len(match_pool) = 2
    /\ \E i \in 1..Len(fund_found) :
          /\ fund_found[i].name = "Bob Smith"
          /\ fund_found[i].email = Email(<<"jane", ".", "smith">>, "acme.vc")
          /\ \E k \in 1..Len(match_pool) :
                match_email_to_name(match_pool[k], "Bob Smith") = 40

(***************************************************************************)
(* ------------  THE PATTERN CACHE DURING ONE guess_batch  --------------- *)
(***************************************************************************)
\* the leads of one fund handed to guess_batch
PatternLeads ==
    {Lead(0, n, "Acme Capital", "https://acme.vc", e, "unknown", "N/A", 0) :
        n \in {"Jane Smith", "Dr. Bob Jones"},
        e \in {NA, Email(<<"jane">>, "acme.vc"),
               Email(<<"jane", ".", "smith">>, "acme.vc")}}

\* a fresh EmailGuesser at the call of guess_batch(leads)
PatternInit ==
    /\ CrawlIdle
    /\ MasterIdle
    /\ AdapterIdle
    /\ ValidatorIdle
    /\ DetectorIdle
    /\ FreshIdle
    /\ MergeIdle
    /\ ScoreIdle
    /\ MatchIdle
    /\ all_leads \in LeadLists(PatternLeads)
    /\ patterns = EmptyDict
    /\ smtp_cache = [available |-> "unknown", results |-> EmptyDict]
    /\ args = [caller |-> "none", skip_greyhat |-> FALSE, skip_smtp |-> FALSE]
    /\ epc = "idle"
    /\ ran = {}
    /\ runs = 0
    /\ first_run = <<>>
    /\ gphase = "learn"
    /\ gpos = 1
    /\ still_no_email = {}

\* what a step of guess_batch leaves alone besides the leads, the cache and
\* its own position
GuessFrame ==
    UNCHANGED <<smtp_cache, args, epc, ran, runs, first_run, crawlVars,
                masterVars, adapterVars, validatorVars, detectorVars,
                freshVars, mergeVars, scoreVars, matchVars>>

\* phase 1, one round of the loop: learn from the lead at gpos
LearnOne ==
    /\ gphase = "learn"
    /\ gpos <= Len(all_leads)
    /\ LET l == all_leads[gpos]
           d == extract_domain(l.website)
       IN patterns' = IF /\ ~NoEmail(l.email)
                         /\ HasAt(l.email)
                         /\ d # None
                         /\ is_person_name(l.name)
                      THEN learn(patterns, d, l.email, l.name)
                      ELSE patterns
    /\ gpos' = gpos + 1
    /\ UNCHANGED <<all_leads, gphase, still_no_email>>
    /\ GuessFrame

\* phase 1 is over
LearnEnds ==
    /\ gphase = "learn"
    /\ gpos > Len(all_leads)
    /\ gphase' = "probe"
    /\ UNCHANGED <<all_leads, patterns, gpos, still_no_email>>
    /\ GuessFrame

\* phase 1.5: domains_to_probe is built from the domains without pattern and
\* _discover_domain_pattern runs for each of them
ProbeDomains ==
    /\ gphase = "probe"
    /\ \E probe \in [Domains -> 0..ProbeCount] :
          patterns' = Discover(all_leads, patterns, probe)
    /\ gphase' = "apply"
    /\ UNCHANGED <<all_leads, gpos, still_no_email>>
    /\ GuessFrame

\* phase 2: the known patterns are applied, the other leads are appended to
\* still_no_email
ApplyKnown ==
    /\ gphase = "apply"
    /\ all_leads' = ApplyPatterns(all_leads, patterns)
    /\ still_no_email' = StillNoEmail(all_leads, patterns)
    /\ gphase' = "process"
    /\ UNCHANGED <<patterns, gpos>>
    /\ GuessFrame

\* phase 3: one _process(lead) of the gather finishes, in any order: guess,
\* then learn from the guess
ProcessOne ==
    /\ gphase = "process"
    /\ \E i \in still_no_email, dns \in [Domains -> DnsOutcomes] :
          LET l == all_leads[i]
              guessed == guess(patterns, l.name, l.website, dns)
          IN /\ IF is_person_name(l.name) /\ guessed # NoAddress
                THEN /\ all_leads' = [all_leads EXCEPT ![i].email = guessed]
                     /\ patterns' = learn(patterns, extract_domain(l.website),
                                          guessed, l.name)
                ELSE UNCHANGED <<all_leads, patterns>>
             /\ still_no_email' = still_no_email \ {i}
    /\ UNCHANGED <<gphase, gpos>>
    /\ GuessFrame

\* the gather of phase 3 has returned
ProcessEnds ==
    /\ gphase = "process"
    /\ still_no_email = {}
    /\ gphase' = "done"
    /\ UNCHANGED <<all_leads, patterns, gpos, still_no_email>>
    /\ GuessFrame

PatternNext ==
    \/ LearnOne
    \/ LearnEnds
    \/ ProbeDomains
    \/ ApplyKnown
    \/ ProcessOne
    \/ ProcessEnds

SpecPattern == PatternInit /\ [][PatternNext]_vars

\* C29: once a pattern is stored for a domain in the pattern cache, no later
\* learn or discovery operation of the same run replaces or removes it: the
\* domain keeps the first pattern that was stored.
C29_FirstPatternKept ==
    [][\A d \in DOMAIN patterns :
          d \in DOMAIN patterns' /\ patterns'[d] = patterns[d]]_vars

\* the first lead taught {first}@{domain}, the second lead's e-mail shows
\* {first}.{last}@{domain}, and after both were learned from the cache still
\* holds the first pattern
C29_Witness ==
    /\ gphase \in {"probe", "apply", "process", "done"}
    /\ Len(all_leads) >= 2
    /\ all_leads[1].name = "Jane Smith"
    /\ all_leads[1].email = Email(<<"jane">>, "acme.vc")
    /\ all_leads[2].name = "Jane Smith"
    /\ all_leads[2].email = Email(<<"jane", ".", "smith">>, "acme.vc")
    /\ "acme.vc" \in DOMAIN patterns
    /\ patterns["acme.vc"] = "{first}@{domain}"

(***************************************************************************)
(* Termination of the load-more and numbered-pages pagination.             *)
(***************************************************************************)
\* the strategies C30 is about
ClickStrategies == {"load_more_button", "numbered_pages"}

\* C30 as stated: load-more and numbered-pages pagination always terminate
\* without raising an error: they stop when the pagination control is
\* missing or invisible (treated as exhausted) or when the click budget or
\* page budget is used up, whichever comes first.
C30_EndsWithoutError ==
    /\ [](pagination.type \in ClickStrategies => apc # "raised")
    /\ (pagination.type \in ClickStrategies) ~> (apc = "done")

\* C30 as amended: load-more and numbered-pages pagination always terminate,
\* within the click or page budget: the loop stops when the control is
\* missing or invisible or a click or wait fails (all treated as exhausted,
\* never an error) or when the budget is used up; the handler raises only
\* when its own _extract_from_page call cannot read the page, the page
\* being gone.
C30_EndsWithinBudget ==
    /\ [](pagination.type \in ClickStrategies
             => /\ step_no <= pagination.budget
                /\ apc = "raised" => page_closed)
    /\ (pagination.type \in ClickStrategies) ~> (apc \in {"done", "raised"})

\* load-more has ended without error before its click budget was used up,
\* on a page that is still open
C30_Witness ==
    /\ pagination.type = "load_more_button"
    /\ apc = "done"
    /\ step_no >= 1
    /\ step_no < pagination.budget
    /\ ~page_closed
    /\ extracts = 1

=============================================================================
